---- MODULE Spec2Model ----
(***************************************************************************)
(* Model of the code-intelligence core of Tracecraft (Mr. Hedgehog).       *)
(*                                                                         *)
(* Part 1: ScipIngestor::ingest_and_build_graph                            *)
(* (src/src/domain/scip_ingest.rs).  The index file is opened, mapped and  *)
(* decoded; Pass 1 runs one task per document (rayon par_iter) that        *)
(* registers a node per definition symbol and stores the document's        *)
(* size-sorted definitions under its relative_path; after the join, Pass 2 *)
(* runs one task per document that resolves every reference to the first   *)
(* containing definition and appends an edge; finalization collects the    *)
(* nodes and sorts them by id.  Tasks interleave at the granularity of one *)
(* occurrence: every DashMap operation of the code is atomic on its own.   *)
(*                                                                         *)
(* CallGraphNode.label is not modelled (nothing below reads it).           *)
(***************************************************************************)
EXTENDS Integers, Sequences, FiniteSets, TLC

\* ------------------------------------------------------------------ bounds
\* Documents per index and occurrences per document of the indexes whose
\* document tasks run concurrently.
MaxDocs == 2
MaxOccs == 2
\* Occurrences of the single-document indexes (nesting, ties, decoding).
MaxNested == 3

\* ------------------------------------------------------------- i32 numbers
\* Ranges are i32 (struct SourceRange); the size key is computed in i32.
MaxI32 == 2147483647
MinI32 == (-MaxI32) - 1
Half == 256 * 256
\* The multiplier of the line span in the size key.
K == 1000

I32SubOverflows(a, b) ==
    \/ b < 0 /\ a > MaxI32 + b
    \/ b > 0 /\ a < MinI32 + b

\* a - b in two's complement, 32 bits.
I32WrappingSub(a, b) ==
    IF b < 0 /\ a > MaxI32 + b THEN (a - MaxI32 - 1) - (b + MaxI32 + 1)
    ELSE IF b > 0 /\ a < MinI32 + b THEN (a + MaxI32 + 1) - (b - MaxI32 - 1)
    ELSE a - b

I32AddOverflows(a, b) ==
    \/ b > 0 /\ a > MaxI32 - b
    \/ b < 0 /\ a < MinI32 - b

\* a + b in two's complement, 32 bits.
I32WrappingAdd(a, b) ==
    IF b > 0 /\ a > MaxI32 - b THEN (a - MaxI32 - 1) + (b - MaxI32 - 1)
    ELSE IF b < 0 /\ a < MinI32 - b THEN (a + MaxI32 + 1) + (b + MaxI32 + 1)
    ELSE a + b

I32MulKOverflows(a) ==
    a > MaxI32 \div K \/ a < -(MaxI32 \div K)

\* a * K in two's complement, 32 bits, computed on 16-bit halves so that no
\* intermediate value leaves the 32-bit range.
I32WrappingMulK(a) ==
    LET u     == IF a < 0 THEN a + MaxI32 + 1 ELSE a
        hi    == (u \div Half) + (IF a < 0 THEN Half \div 2 ELSE 0)
        lo    == u % Half
        lower == (lo * K) % Half
        carry == (lo * K) \div Half
        upper == (hi * K + carry) % Half
    IN  IF upper >= Half \div 2 THEN (upper - Half) * Half + lower
        ELSE upper * Half + lower

\* ------------------------------------------------------------ SourceRange
SourceRange(sl, sc, el, ec) ==
    [start_line |-> sl, start_col |-> sc, end_line |-> el, end_col |-> ec]

\* Mutant of Contains: the columns are not compared.
ContainsLinesOnly(self, other) ==
    IF self.start_line > other.start_line \/ self.end_line < other.end_line
    THEN FALSE
    ELSE TRUE

\* SourceRange::contains(&self, other)
Contains(self, other) ==
    IF self.start_line > other.start_line \/ self.end_line < other.end_line
    THEN FALSE
    ELSE IF self.start_line = other.start_line /\ self.start_col > other.start_col
    THEN FALSE
    ELSE IF self.end_line = other.end_line /\ self.end_col < other.end_col
    THEN FALSE
    ELSE TRUE

\* Mutant of parse_scip_range: only the 4-element form is decoded.
parse_scip_range_four_only(range) ==
    IF Len(range) = 4 THEN SourceRange(range[1], range[2], range[3], range[4])
    ELSE SourceRange(0, 0, 0, 0)

\* parse_scip_range(range: &[i32])
parse_scip_range(range) ==
    IF Len(range) = 3 THEN SourceRange(range[1], range[2], range[1], range[3])
    ELSE IF Len(range) = 4 THEN SourceRange(range[1], range[2], range[3], range[4])
    ELSE SourceRange(0, 0, 0, 0)

\* The sort key of a definition: (end_line - start_line) * 1000
\*                               + (end_col - start_col), wrapping.
RangeSize(r) ==
    I32WrappingAdd(I32WrappingMulK(I32WrappingSub(r.end_line, r.start_line)),
                   I32WrappingSub(r.end_col, r.start_col))

\* Some step of the key's computation leaves i32: a build with overflow
\* checks panics there, a build without them wraps.
RangeSizeOverflows(r) ==
    \/ I32SubOverflows(r.end_line, r.start_line)
    \/ I32MulKOverflows(I32WrappingSub(r.end_line, r.start_line))
    \/ I32SubOverflows(r.end_col, r.start_col)
    \/ I32AddOverflows(I32WrappingMulK(I32WrappingSub(r.end_line, r.start_line)),
                       I32WrappingSub(r.end_col, r.start_col))


\* --------------------------------------------------------------- symbols
\* Symbols are opaque strings; node ids are compared as Rust compares
\* Strings (byte order).  The model's symbols in that order:
SymbolOrder == <<"D", "E", "T">>
Symbols == {SymbolOrder[i] : i \in 1..Len(SymbolOrder)}
Rank(s) == CHOOSE i \in 1..Len(SymbolOrder) : SymbolOrder[i] = s
\* a.id.cmp(&b.id) == Less
IdLess(a, b) == Rank(a) < Rank(b)

\* No enclosing definition was found for the last reference.
NoCaller == "<none>"

\* ------------------------------------------------------- the input index
Occ(sym, roles, range) == [symbol |-> sym, symbol_roles |-> roles, range |-> range]
Doc(path, occs) == [relative_path |-> path, occurrences |-> occs]

\* Mutant of is_definition: any role bit marks a definition.
is_definition_any_bit(occurrence) == occurrence.symbol_roles # 0

\* let is_definition = occurrence.symbol_roles & 1 != 0;
is_definition(occurrence) == occurrence.symbol_roles % 2 = 1

\* Raw ranges of the inputs.
ROuter == <<1, 0, 2, 0>>         \* size 1000
RInner == <<1, 2, 1, 8>>         \* size 6, inside ROuter
RWide  == <<1, 0, 1, 2000>>      \* size 2000, inside ROuter
RHuge  == <<0, 0, 2147484, 0>>   \* the line span times 1000 leaves i32
RRefIn == <<1, 4, 5>>            \* inside each of the four above
RRefOut == <<0, 0, 1>>           \* before ROuter, RInner and RWide
RBad   == <<1, 4>>               \* neither 3 nor 4 elements

Paths == {"a.rs", "b.rs"}

\* Occurrences of the indexes with several documents.
PoolShared ==
    { Occ("D", 1, ROuter), Occ("E", 1, ROuter),
      Occ("T", 0, RRefIn), Occ("E", 0, RRefIn) }

\* Occurrences of the single-document indexes.
PoolNested ==
    { Occ("D", 1, ROuter), Occ("D", 1, RInner), Occ("D", 1, RWide),
      Occ("D", 1, RHuge),
      Occ("E", 1, ROuter), Occ("E", 1, RInner), Occ("E", 1, RWide),
      Occ("T", 0, RRefIn), Occ("D", 0, RRefIn), Occ("T", 0, RRefOut),
      Occ("E", 3, ROuter), Occ("T", 2, RRefIn),
      Occ("", 1, ROuter), Occ("", 0, RRefIn),
      Occ("D", 1, RBad), Occ("T", 0, RBad) }

SeqsUpTo(S, n) == UNION {[1..k -> S] : k \in 0..n}

ConcurrentIndexes ==
    UNION {[1..n -> {Doc(p, o) : p \in Paths, o \in SeqsUpTo(PoolShared, MaxOccs)}]
           : n \in 0..MaxDocs}

NestedIndexes ==
    {<<Doc("a.rs", o)>> : o \in SeqsUpTo(PoolNested, MaxNested)}

Indexes == ConcurrentIndexes \cup NestedIndexes

\* What the file at scip_path is: absent, not mappable (a directory), bytes
\* that are no Index message, or an encoded Index.
FileKinds == {"missing", "unmappable", "garbage", "valid"}

\* The sort of a definitions list evaluates a size key that leaves i32
\* (sort_by calls the comparator only for lists of two or more entries, and
\* then on every entry).
SortOverflows(defs) ==
    /\ Len(defs) >= 2
    /\ \E i \in 1..Len(defs) : RangeSizeOverflows(defs[i].range)

\* The definition occurrences of a document, as Pass 1 collects them.
DefsOf(document) ==
    LET kept == SelectSeq(document.occurrences,
                          LAMBDA o : is_definition(o) /\ o.symbol # "")
    IN  [i \in 1..Len(kept) |->
            [symbol |-> kept[i].symbol, range |-> parse_scip_range(kept[i].range)]]

\* ------------------------------------------------- the steps of the code
DefinitionInfo(sym, range) == [symbol |-> sym, range |-> range]

\* Mutant of RegisterSymbol: a plain insert on every sighting (last writer
\* wins), as a get() followed by insert() would do under a race.
RegisterSymbolLastWriter(s2n, nodes, counter, sym) ==
    [symbol_to_node |-> (sym :> counter) @@ s2n,
     node_data      |-> (counter :> [id |-> sym, callees |-> <<>>]) @@ nodes,
     node_counter   |-> counter + 1]

\* symbol_to_node.entry(symbol).or_insert_with(|| { fetch_add; node_data.insert;
\* id }): one atomic get-or-create under the entry's lock.
RegisterSymbol(s2n, nodes, counter, sym) ==
    IF sym \in DOMAIN s2n
    THEN [symbol_to_node |-> s2n, node_data |-> nodes, node_counter |-> counter]
    ELSE [symbol_to_node |-> (sym :> counter) @@ s2n,
          node_data      |-> (counter :> [id |-> sym, callees |-> <<>>]) @@ nodes,
          node_counter   |-> counter + 1]

\* The place of a definition in a list already sorted by descending size:
\* behind every entry that is not smaller (the sort is stable).
InsertBySize(sorted, def) ==
    LET n == Cardinality({i \in 1..Len(sorted) :
                            RangeSize(sorted[i].range) >= RangeSize(def.range)})
    IN  SubSeq(sorted, 1, n) \o <<def>> \o SubSeq(sorted, n + 1, Len(sorted))

\* Mutant of SortBySizeDesc: a_size.cmp(&b_size), smallest first.
RECURSIVE SortBySizeAsc(_)
SortBySizeAsc(defs) ==
    IF defs = <<>> THEN <<>>
    ELSE LET rest == SortBySizeAsc(SubSeq(defs, 1, Len(defs) - 1))
             def  == defs[Len(defs)]
             n    == Cardinality({i \in 1..Len(rest) :
                        RangeSize(rest[i].range) <= RangeSize(def.range)})
         IN  SubSeq(rest, 1, n) \o <<def>> \o SubSeq(rest, n + 1, Len(rest))

\* file_defs.sort_by(|a, b| b_size.cmp(&a_size)): stable, largest first.
RECURSIVE SortBySizeDesc(_)
SortBySizeDesc(defs) ==
    IF defs = <<>> THEN <<>>
    ELSE InsertBySize(SortBySizeDesc(SubSeq(defs, 1, Len(defs) - 1)),
                      defs[Len(defs)])

\* for def in &file_defs { if def.range.contains(&ref_range) { ...; break } }
\* The index of the first definition that contains the reference, 0 if none.
FirstContaining(defs, ref_range) ==
    LET hits == {i \in 1..Len(defs) : Contains(defs[i].range, ref_range)}
    IN  IF hits = {} THEN 0
        ELSE CHOOSE i \in hits : \A j \in hits : i <= j

ResolveCaller(defs, ref_range) ==
    IF FirstContaining(defs, ref_range) = 0 THEN NoCaller
    ELSE defs[FirstContaining(defs, ref_range)].symbol

InCallees(node, callee) ==
    \E i \in 1..Len(node.callees) : node.callees[i] = callee

\* Mutant of AddEdge: the self-reference test is missing.
AddEdgeWithSelf(nodes, s2n, caller, callee) ==
    IF caller \notin DOMAIN s2n THEN nodes
    ELSE IF s2n[caller] \notin DOMAIN nodes THEN nodes
    ELSE IF InCallees(nodes[s2n[caller]], callee) THEN nodes
    ELSE [nodes EXCEPT ![s2n[caller]].callees = Append(@, callee)]

\* Mutant of AddEdge: the callee is pushed without the contains() test.
AddEdgeNoDedup(nodes, s2n, caller, callee) ==
    IF caller \notin DOMAIN s2n THEN nodes
    ELSE IF caller = callee THEN nodes
    ELSE IF s2n[caller] \notin DOMAIN nodes THEN nodes
    ELSE [nodes EXCEPT ![s2n[caller]].callees = Append(@, callee)]

\* Mutant of AddEdge: the callee replaces the callees list.
AddEdgeOverwrite(nodes, s2n, caller, callee) ==
    IF caller \notin DOMAIN s2n THEN nodes
    ELSE IF caller = callee THEN nodes
    ELSE IF s2n[caller] \notin DOMAIN nodes THEN nodes
    ELSE IF InCallees(nodes[s2n[caller]], callee) THEN nodes
    ELSE [nodes EXCEPT ![s2n[caller]].callees = <<callee>>]

\* The body of the match in Pass 2: look the caller up, skip a self
\* reference, and push the callee unless the node already lists it (the
\* test and the push run under the node's get_mut guard).
AddEdge(nodes, s2n, caller, callee) ==
    IF caller \notin DOMAIN s2n THEN nodes
    ELSE IF caller = callee THEN nodes
    ELSE IF s2n[caller] \notin DOMAIN nodes THEN nodes
    ELSE IF InCallees(nodes[s2n[caller]], callee) THEN nodes
    ELSE [nodes EXCEPT ![s2n[caller]].callees = Append(@, callee)]

\* nodes.sort_by(|a, b| a.id.cmp(&b.id)): stable, ascending id.
InsertById(sorted, node) ==
    LET n == Cardinality({i \in 1..Len(sorted) : ~IdLess(node.id, sorted[i].id)})
    IN  SubSeq(sorted, 1, n) \o <<node>> \o SubSeq(sorted, n + 1, Len(sorted))

RECURSIVE SortById(_)
SortById(nodes) ==
    IF nodes = <<>> THEN <<>>
    ELSE InsertById(SortById(SubSeq(nodes, 1, Len(nodes) - 1)), nodes[Len(nodes)])

\* node_data.into_iter().collect(): the nodes in some iteration order of the
\* map (any order: DashMap iterates by shard and hash).
Collections(nodes) ==
    {[i \in 1..Cardinality(DOMAIN nodes) |-> nodes[order[i]]] :
        order \in {f \in [1..Cardinality(DOMAIN nodes) -> DOMAIN nodes] :
                     \A i, j \in DOMAIN f : i # j => f[i] # f[j]}}

\* Mutant of FinalNodes: the nodes are returned as collected, unsorted.
FinalNodesUnsorted(collected) == collected

\* The vector the function returns for one collection order.
FinalNodes(collected) == SortById(collected)

\* ------------------------------------------------------------------ state
VARIABLES
    file,                \* what is at scip_path
    index,               \* the Index the file encodes
    overflow_checks,     \* the build panics on integer overflow
    phase,               \* where ingest_and_build_graph is
    definitions_by_file, \* DashMap<String, Vec<DefinitionInfo>>
    symbol_to_node,      \* DashMap<String, usize>
    node_counter,        \* AtomicUsize
    node_data,           \* DashMap<usize, CallGraphNode>
    edge_counter,        \* AtomicUsize
    pc,                  \* per document task: "p1", "p1done", "p2", "p2done"
    pos,                 \* per document task: occurrences already handled
    file_defs,           \* per document task: its local file_defs
    caller_symbol,       \* per document task: the caller resolved last
    result               \* what the call returned

vars == <<file, index, overflow_checks, phase, definitions_by_file,
          symbol_to_node, node_counter, node_data, edge_counter,
          pc, pos, file_defs, caller_symbol, result>>

\* State of the other parts of the core (Part 2: the SCIP cache and the
\* index generation in front of which it sits).  ingest_and_build_graph
\* reads and writes none of it.
VARIABLES
    src,                 \* the tracked source files on disk
    lockfile,            \* <workspace_root>/Cargo.lock
    index_file,          \* <workspace_root>/index.scip
    meta_file,           \* <workspace_root>/index.scip.meta
    gen,                 \* the generate_scip_index_for_language call under way
    last,                \* the latest event: an operation and what it returned
    snapshot,            \* what the latest update_metadata saw (history)
    indexer_runs,        \* times the external indexer was run
    changes,             \* changes made to the files by other programs
    indexed              \* what the run that wrote index.scip read (history,
                         \* kept under SpecIndexed only)

cache_vars == <<src, lockfile, index_file, meta_file, gen, last, snapshot,
                indexer_runs, changes, indexed>>

\* State of Part 3, the symbol store.
VARIABLES
    backend,             \* "memory" (MemorySymbolStore) or "disk" (DiskSymbolStore)
    functions,           \* global_functions, or the sled tree "functions"
    store_last,          \* the latest store operation and what it returned
    inserted,            \* key -> the signatures passed to insert_function (history)
    io_failed            \* an operation of the sled store has failed (history)

store_vars == <<backend, functions, store_last, inserted, io_failed>>

\* State of Part 4, the two backends of the symbol store side by side:
\* every call is made on a MemorySymbolStore and on a DiskSymbolStore.
VARIABLES
    memory_store,        \* global_functions, type_methods, method_lookup
    disk_store,          \* the sled trees functions, methods, method_lookup
    registering,         \* per thread: its register_method_lookup under way
    answer,              \* the latest query and what each backend returned
    called,              \* the calls that have returned (history)
    faults,              \* operations of the sled store that failed (history)
    raced                \* two registrations have overlapped (history)

backends_vars == <<memory_store, disk_store, registering, answer, called,
                   faults, raced>>

\* State of Part 5, SourceRange and the size key called on their own.
VARIABLES
    range_call           \* the latest call: its arguments and what it returned

range_vars == <<range_call>>

\* State of Part 6, SymbolIndex::build.
VARIABLES
    sources,             \* the (crate_name, file_path, code) triples passed
    build_task,          \* per source: where its closure is
    pairs,               \* per source: the pair its closure returned
    symbol_index,        \* the SymbolIndex being filled
    build_result         \* what build returned

build_vars == <<sources, build_task, pairs, symbol_index, build_result>>

\* State of Part 7, the command server: one connection, its client and
\* the thread that serves it.
VARIABLES
    sent,                \* the lines the client has written (history)
    inbox,               \* how many of them the server has not read yet
    client,              \* "writing", or "closed" once the client is done
    connection,          \* "open", "ended" (EOF seen), "dropped" (the
                         \* serving thread returned Err or died)
    process_state,       \* "running", or "exited" after SHUTDOWN
    responses            \* the response lines written, oldest first

server_vars == <<sent, inbox, client, connection, process_state, responses>>

\* State of Part 8, the shard locks the document tasks take on
\* symbol_to_node and node_data (DashMap keeps one reader-writer lock per
\* shard of its keys).
VARIABLES
    collide,             \* per map: its keys all hash to one shard
    held,                \* per document task: the shard locks it holds
    at                   \* per document task: where it is inside an occurrence

lock_vars == <<collide, held, at>>

further == <<backends_vars, range_vars, build_vars, server_vars, lock_vars>>
elsewhere == <<cache_vars, store_vars, further>>

NoEvent == [op |-> "none"]
\* The value of a history variable that is not kept in a behaviour.
Unrecorded == [op |-> "unrecorded"]
CacheAtRest ==
    /\ src = <<>>
    /\ lockfile = [kind |-> "absent"]
    /\ index_file = [kind |-> "absent"]
    /\ meta_file = [kind |-> "absent"]
    /\ gen = [pc |-> "idle"]
    /\ last = NoEvent
    /\ snapshot = [taken |-> FALSE]
    /\ indexer_runs = 0
    /\ changes = 0
    /\ indexed = NoEvent
StoreAtRest ==
    /\ backend = "memory"
    /\ functions = <<>>
    /\ store_last = NoEvent
    /\ inserted = <<>>
    /\ io_failed = FALSE
BackendsAtRest ==
    /\ memory_store = <<>>
    /\ disk_store = <<>>
    /\ registering = <<>>
    /\ answer = NoEvent
    /\ called = <<>>
    /\ faults = 0
    /\ raced = FALSE
RangesAtRest ==
    /\ range_call = NoEvent
BuildAtRest ==
    /\ sources = <<>>
    /\ build_task = <<>>
    /\ pairs = <<>>
    /\ symbol_index = <<>>
    /\ build_result = NoEvent
ServerAtRest ==
    /\ sent = <<>>
    /\ inbox = 0
    /\ client = "writing"
    /\ connection = "open"
    /\ process_state = "running"
    /\ responses = <<>>
LocksAtRest ==
    /\ collide = <<>>
    /\ held = <<>>
    /\ at = <<>>
FurtherAtRest ==
    /\ BackendsAtRest
    /\ RangesAtRest
    /\ BuildAtRest
    /\ ServerAtRest
    /\ LocksAtRest

Docs == 1..Len(index)
EmptyMap == [x \in {} |-> 0]
NoResult == [status |-> "none", nodes |-> <<>>]
Err(context) == [status |-> context, nodes |-> <<>>]
Ok(nodes) == [status |-> "ok", nodes |-> nodes]

Init ==
    /\ file \in FileKinds
    /\ index \in (IF file = "valid" THEN Indexes ELSE {<<>>})
    /\ overflow_checks \in
          (IF \E d \in 1..Len(index) : SortOverflows(DefsOf(index[d]))
           THEN BOOLEAN ELSE {FALSE})
    /\ phase = "open"
    /\ definitions_by_file = EmptyMap
    /\ symbol_to_node = EmptyMap
    /\ node_counter = 0
    /\ node_data = EmptyMap
    /\ edge_counter = 0
    /\ pc = [d \in 1..Len(index) |-> "p1"]
    /\ pos = [d \in 1..Len(index) |-> 0]
    /\ file_defs = [d \in 1..Len(index) |-> <<>>]
    /\ caller_symbol = [d \in 1..Len(index) |-> NoCaller]
    /\ result = NoResult
    /\ CacheAtRest
    /\ StoreAtRest
    /\ FurtherAtRest

shared == <<definitions_by_file, symbol_to_node, node_counter, node_data,
            edge_counter>>
tasks == <<pc, pos, file_defs, caller_symbol>>
input == <<file, index, overflow_checks>>

\* File::open(scip_path).context("Failed to open SCIP index file")?
OpenFile ==
    /\ phase = "open"
    /\ IF file = "missing"
       THEN phase' = "failed" /\ result' = Err("Failed to open SCIP index file")
       ELSE phase' = "map" /\ UNCHANGED result
    /\ UNCHANGED <<elsewhere, input, shared, tasks>>

\* unsafe { Mmap::map(&file) }.context("Failed to memory-map SCIP index file")?
MapFile ==
    /\ phase = "map"
    /\ IF file = "unmappable"
       THEN phase' = "failed"
            /\ result' = Err("Failed to memory-map SCIP index file")
       ELSE phase' = "parse" /\ UNCHANGED result
    /\ UNCHANGED <<elsewhere, input, shared, tasks>>

\* Index::parse_from_bytes(&mmap).context("Failed to parse SCIP index protobuf")?
\* On success the maps are created and Pass 1 fans out.
ParseIndex ==
    /\ phase = "parse"
    /\ IF file = "garbage"
       THEN phase' = "failed"
            /\ result' = Err("Failed to parse SCIP index protobuf")
       ELSE phase' = "pass1" /\ UNCHANGED result
    /\ UNCHANGED <<elsewhere, input, shared, tasks>>

\* ----------------------------------------------------------------- Pass 1
\* One iteration of the occurrence loop of a Pass-1 task.
P1Occurrence(d) ==
    /\ phase = "pass1"
    /\ pc[d] = "p1"
    /\ pos[d] < Len(index[d].occurrences)
    /\ LET occurrence == index[d].occurrences[pos[d] + 1]
           reg == RegisterSymbol(symbol_to_node, node_data, node_counter,
                                 occurrence.symbol)
       IN  IF is_definition(occurrence) /\ occurrence.symbol # ""
           THEN /\ symbol_to_node' = reg.symbol_to_node
                /\ node_data' = reg.node_data
                /\ node_counter' = reg.node_counter
                /\ file_defs' = [file_defs EXCEPT ![d] =
                       Append(@, DefinitionInfo(occurrence.symbol,
                                   parse_scip_range(occurrence.range)))]
           ELSE UNCHANGED <<symbol_to_node, node_data, node_counter, file_defs>>
    /\ pos' = [pos EXCEPT ![d] = @ + 1]
    /\ UNCHANGED <<elsewhere, input, phase, definitions_by_file, edge_counter, pc,
                   caller_symbol, result>>

\* The end of a Pass-1 task: sort file_defs and store it under the
\* document's relative_path (DashMap::insert replaces an earlier entry).
\* With overflow checks an overflowing size key panics inside the comparator
\* and the call never returns.
P1Finish(d) ==
    /\ phase = "pass1"
    /\ pc[d] = "p1"
    /\ pos[d] = Len(index[d].occurrences)
    /\ IF overflow_checks /\ SortOverflows(file_defs[d])
       THEN /\ phase' = "panicked"
            /\ UNCHANGED <<definitions_by_file, pc, pos, file_defs>>
       ELSE /\ definitions_by_file' =
                  (index[d].relative_path :> SortBySizeDesc(file_defs[d]))
                      @@ definitions_by_file
            /\ pc' = [pc EXCEPT ![d] = "p1done"]
            /\ pos' = [pos EXCEPT ![d] = 0]
            /\ file_defs' = [file_defs EXCEPT ![d] = <<>>]
            /\ UNCHANGED phase
    /\ UNCHANGED <<elsewhere, input, symbol_to_node, node_counter, node_data, edge_counter,
                   caller_symbol, result>>

\* The first par_iter().for_each() returns when every task has ended.
Pass1Join ==
    /\ phase = "pass1"
    /\ \A d \in Docs : pc[d] # "p1"
    /\ phase' = "pass2"
    /\ UNCHANGED <<elsewhere, input, shared, tasks, result>>

\* ----------------------------------------------------------------- Pass 2
\* Mutant of MayStartPass2: the passes are fused, a task goes on to its
\* Pass 2 as soon as its own Pass 1 has ended.
MayStartPass2Fused(d) == phase \in {"pass1", "pass2"}

\* A Pass-2 task exists only once the second par_iter() has been reached.
MayStartPass2(d) == phase = "pass2"

\* The start of a Pass-2 task: clone the list stored under relative_path.
P2Begin(d) ==
    /\ MayStartPass2(d)
    /\ pc[d] = "p1done"
    /\ file_defs' = [file_defs EXCEPT ![d] =
           IF index[d].relative_path \in DOMAIN definitions_by_file
           THEN definitions_by_file[index[d].relative_path]
           ELSE <<>>]
    /\ pc' = [pc EXCEPT ![d] =
           IF Len(index[d].occurrences) = 0 THEN "p2done" ELSE "p2"]
    /\ UNCHANGED <<elsewhere, input, phase, shared, pos, caller_symbol, result>>

\* One iteration of the occurrence loop of a Pass-2 task.
P2Occurrence(d) ==
    /\ pc[d] = "p2"
    /\ pos[d] < Len(index[d].occurrences)
    /\ LET occurrence == index[d].occurrences[pos[d] + 1]
           caller == ResolveCaller(file_defs[d], parse_scip_range(occurrence.range))
           nodes  == AddEdge(node_data, symbol_to_node, caller, occurrence.symbol)
       IN  IF ~is_definition(occurrence) /\ occurrence.symbol # ""
           THEN /\ caller_symbol' = [caller_symbol EXCEPT ![d] = caller]
                /\ node_data' = nodes
                /\ edge_counter' =
                       IF nodes # node_data THEN edge_counter + 1 ELSE edge_counter
           ELSE /\ caller_symbol' = [caller_symbol EXCEPT ![d] = NoCaller]
                /\ UNCHANGED <<node_data, edge_counter>>
    /\ pos' = [pos EXCEPT ![d] = @ + 1]
    /\ pc' = [pc EXCEPT ![d] =
           IF pos[d] + 1 = Len(index[d].occurrences) THEN "p2done" ELSE "p2"]
    /\ UNCHANGED <<elsewhere, input, phase, definitions_by_file, symbol_to_node,
                   node_counter, file_defs, result>>

\* --------------------------------------------------------------- Finalize
\* The second for_each() has returned: collect, sort by id, return Ok.
Finalize ==
    /\ phase = "pass2"
    /\ \A d \in Docs : pc[d] = "p2done"
    /\ \E collected \in Collections(node_data) :
          result' = Ok(FinalNodes(collected))
    /\ phase' = "done"
    /\ UNCHANGED <<elsewhere, input, shared, tasks>>

Next ==
    \/ OpenFile
    \/ MapFile
    \/ ParseIndex
    \/ \E d \in Docs : P1Occurrence(d)
    \/ \E d \in Docs : P1Finish(d)
    \/ Pass1Join
    \/ \E d \in Docs : P2Begin(d)
    \/ \E d \in Docs : P2Occurrence(d)
    \/ Finalize

Spec == Init /\ [][Next]_vars

\* =================================================================
\* Properties of ingest_and_build_graph
\* =================================================================
Done == phase = "done"

\* The task of document d is in Pass 2 and has handled an occurrence.
InPass2(d) == pc[d] \in {"p2", "p2done"} /\ pos[d] >= 1
\* The occurrence a task handled last.
LastOcc(d) == index[d].occurrences[pos[d]]
IsReference(o) == ~is_definition(o) /\ o.symbol # ""
\* The task of document d has just handled a reference occurrence.
JustResolved(d) == InPass2(d) /\ IsReference(LastOcc(d))

\* The document's own size-sorted definitions list.
OwnSortedDefs(d) == SortBySizeDesc(DefsOf(index[d]))

\* The nodes of the returned graph that carry id.
ResultNodes(id) ==
    {i \in 1..Len(result.nodes) : result.nodes[i].id = id}
\* Some node of the returned graph with this id lists callee.
ResultHasEdge(id, callee) ==
    \E i \in ResultNodes(id) : InCallees(result.nodes[i], callee)

\* The symbols with a definition occurrence somewhere in the index.
DefinedSymbols ==
    UNION {{DefsOf(index[d])[i].symbol : i \in 1..Len(DefsOf(index[d]))}
           : d \in Docs}

\* The reference occurrences of a document, as positions.
RefsOf(d) ==
    {i \in 1..Len(index[d].occurrences) : IsReference(index[d].occurrences[i])}
RefRange(d, i) == parse_scip_range(index[d].occurrences[i].range)

\* Two documents of the index carry the same relative_path.
SharedPath ==
    \E d, e \in Docs : d # e /\ index[d].relative_path = index[e].relative_path

\* ----------------------------------------------------------------- C1
\* C1: every reference with a non-empty symbol C resolves to the first
\* entry of its own document's size-sorted definitions list that contains
\* it, and when that caller D differs from C the returned graph has C among
\* the callees of node D.
C1_CallerIsFirstContainingOwnDef ==
    /\ \A d \in Docs :
          JustResolved(d) =>
             caller_symbol[d] =
                ResolveCaller(OwnSortedDefs(d), parse_scip_range(LastOcc(d).range))
    /\ Done =>
          \A d \in Docs : \A i \in RefsOf(d) :
             LET caller == ResolveCaller(OwnSortedDefs(d), RefRange(d, i))
             IN  (caller # NoCaller /\ caller # index[d].occurrences[i].symbol)
                    => ResultHasEdge(caller, index[d].occurrences[i].symbol)

\* ----------------------------------------------------------------- C2
\* C2: no node has its own id among its callees, in the node table at every
\* moment and in the returned graph.
C2_NoSelfEdges ==
    /\ \A n \in DOMAIN node_data : ~InCallees(node_data[n], node_data[n].id)
    /\ \A i \in 1..Len(result.nodes) :
          ~InCallees(result.nodes[i], result.nodes[i].id)

\* A graph was returned after a reference to S was resolved to caller S.
C2_Witness ==
    /\ Done
    /\ \E d \in Docs :
          JustResolved(d) /\ caller_symbol[d] = LastOcc(d).symbol

\* ----------------------------------------------------------------- C3
\* C3: each callee id appears at most once in a node's callees, in the node
\* table at every moment and in the returned graph.
NoDuplicates(seq) ==
    \A i, j \in 1..Len(seq) : i # j => seq[i] # seq[j]

C3_CalleesDuplicateFree ==
    /\ \A n \in DOMAIN node_data : NoDuplicates(node_data[n].callees)
    /\ \A i \in 1..Len(result.nodes) : NoDuplicates(result.nodes[i].callees)

\* A graph was returned after the tasks of two documents each resolved a
\* reference to the same callee to the same caller.
C3_Witness ==
    /\ Done
    /\ \E d, e \in Docs :
          /\ d # e
          /\ JustResolved(d) /\ JustResolved(e)
          /\ LastOcc(d).symbol = LastOcc(e).symbol
          /\ caller_symbol[d] = caller_symbol[e]
          /\ caller_symbol[d] \notin {NoCaller, LastOcc(d).symbol}
          /\ \E i \in 1..Len(DefsOf(index[d])), j \in 1..Len(DefsOf(index[e])) :
                /\ DefsOf(index[d])[i].symbol = caller_symbol[d]
                /\ DefsOf(index[e])[j].symbol = caller_symbol[d]

\* ----------------------------------------------------------------- C4
\* C4: a reference contained in no definition range of its own document
\* adds no edge: a symbol all of whose references are such references is in
\* no node's callees.
Uncontained(d, i) ==
    FirstContaining(DefsOf(index[d]), RefRange(d, i)) = 0

C4_UncontainedRefAddsNoEdge ==
    \A sym \in Symbols :
       (\A d \in Docs : \A i \in RefsOf(d) :
            index[d].occurrences[i].symbol = sym => Uncontained(d, i))
       => /\ \A n \in DOMAIN node_data : ~InCallees(node_data[n], sym)
          /\ \A i \in 1..Len(result.nodes) : ~InCallees(result.nodes[i], sym)

\* ----------------------------------------------------------------- C5
\* C5: once Pass 1 has ended the node table holds exactly one node per
\* symbol that has a definition occurrence and no other node, the symbol map
\* names that node, and a node or map entry, once created, is never
\* replaced.
OneNodePerDefinedSymbol ==
    /\ DOMAIN symbol_to_node = DefinedSymbols
    /\ \A sym \in DefinedSymbols :
          Cardinality({n \in DOMAIN node_data : node_data[n].id = sym}) = 1
    /\ \A n \in DOMAIN node_data : node_data[n].id \in DefinedSymbols
    /\ \A sym \in DOMAIN symbol_to_node :
          /\ symbol_to_node[sym] \in DOMAIN node_data
          /\ node_data[symbol_to_node[sym]].id = sym

NodesNeverReplaced ==
    /\ \A sym \in DOMAIN symbol_to_node :
          sym \in DOMAIN symbol_to_node' /\ symbol_to_node'[sym] = symbol_to_node[sym]
    /\ \A n \in DOMAIN node_data :
          n \in DOMAIN node_data' /\ node_data'[n].id = node_data[n].id

C5_OneNodePerDefinedSymbol ==
    /\ [](phase \in {"pass2", "done"} => OneNodePerDefinedSymbol)
    /\ [][NodesNeverReplaced]_vars

\* Pass 1 has ended on an index in which two documents define one symbol and
\* another symbol is only referenced.
C5_Witness ==
    /\ phase = "pass2"
    /\ \E d, e \in Docs : \E i \in 1..Len(DefsOf(index[d])) :
          \E j \in 1..Len(DefsOf(index[e])) :
             d # e /\ DefsOf(index[d])[i].symbol = DefsOf(index[e])[j].symbol
    /\ \E d \in Docs : \E i \in RefsOf(d) :
          index[d].occurrences[i].symbol \notin DefinedSymbols

\* ----------------------------------------------------------------- C6
\* C6: the call ends with an error and no graph, before Pass 1 has touched
\* anything, or with a graph for which every document went through both
\* passes; nothing fails once Pass 1 has started.
C6_AllOrNothing ==
    /\ phase # "panicked"
    /\ phase = "failed" =>
          /\ result.status \notin {"none", "ok"}
          /\ result.nodes = <<>>
          /\ node_data = EmptyMap /\ symbol_to_node = EmptyMap
          /\ definitions_by_file = EmptyMap
    /\ result.status # "none" => phase \in {"failed", "done"}
    /\ result.status = "ok" =>
          /\ \A d \in Docs : pc[d] = "p2done"
          /\ {result.nodes[i] : i \in 1..Len(result.nodes)}
                = {node_data[n] : n \in DOMAIN node_data}
          /\ Len(result.nodes) = Cardinality(DOMAIN node_data)

\* ----------------------------------------------------------------- C7
\* C7: while any task is in Pass 2 no task is in Pass 1, the symbol map, the
\* node table and the definitions lists are complete, and they do not change
\* any more (callees apart).
Pass1Complete ==
    /\ \A e \in Docs : pc[e] # "p1"
    /\ DOMAIN symbol_to_node = DefinedSymbols
    /\ {node_data[n].id : n \in DOMAIN node_data} = DefinedSymbols
    /\ \A e \in Docs :
          /\ index[e].relative_path \in DOMAIN definitions_by_file
          /\ \E f \in Docs :
                /\ index[f].relative_path = index[e].relative_path
                /\ definitions_by_file[index[e].relative_path] = OwnSortedDefs(f)

SomeTaskInPass2 == \E d \in Docs : pc[d] \in {"p2", "p2done"}

C7_BarrierBetweenPasses ==
    /\ [](SomeTaskInPass2 => Pass1Complete)
    /\ [][SomeTaskInPass2 =>
             /\ symbol_to_node' = symbol_to_node
             /\ definitions_by_file' = definitions_by_file
             /\ DOMAIN node_data' = DOMAIN node_data
             /\ \A n \in DOMAIN node_data : node_data'[n].id = node_data[n].id]_vars

\* A task has resolved a reference to a caller while the task of another
\* document has not begun its Pass 2.
C7_Witness ==
    \E d, e \in Docs :
       /\ JustResolved(d) /\ caller_symbol[d] # NoCaller
       /\ pc[e] = "p1done"
       /\ Len(DefsOf(index[e])) > 0

\* ----------------------------------------------------------------- C8
\* The graph of the schedule that runs the document tasks one after the
\* other in index order, in both passes.
RECURSIVE SeqRegister(_, _)
SeqRegister(st, defs) ==
    IF defs = <<>> THEN st
    ELSE SeqRegister(RegisterSymbol(st.symbol_to_node, st.node_data,
                                    st.node_counter, defs[1].symbol),
                     Tail(defs))

RECURSIVE SeqPass1(_)
SeqPass1(k) ==
    IF k = 0
    THEN [symbol_to_node |-> EmptyMap, node_data |-> EmptyMap, node_counter |-> 0,
          definitions_by_file |-> EmptyMap]
    ELSE LET before == SeqPass1(k - 1)
             reg    == SeqRegister(before, DefsOf(index[k]))
         IN  [symbol_to_node |-> reg.symbol_to_node,
              node_data |-> reg.node_data,
              node_counter |-> reg.node_counter,
              definitions_by_file |->
                  (index[k].relative_path :> OwnSortedDefs(k))
                      @@ before.definitions_by_file]

RECURSIVE SeqPass2Doc(_, _, _)
SeqPass2Doc(nodes, d, i) ==
    IF i > Len(index[d].occurrences) THEN nodes
    ELSE LET st == SeqPass1(Len(index))
             o  == index[d].occurrences[i]
             caller == ResolveCaller(st.definitions_by_file[index[d].relative_path],
                                     parse_scip_range(o.range))
         IN  SeqPass2Doc(IF IsReference(o)
                         THEN AddEdge(nodes, st.symbol_to_node, caller, o.symbol)
                         ELSE nodes,
                         d, i + 1)

RECURSIVE SeqPass2(_)
SeqPass2(k) ==
    IF k = 0 THEN SeqPass1(Len(index)).node_data
    ELSE SeqPass2Doc(SeqPass2(k - 1), k, 1)

SequentialGraph ==
    FinalNodes(CHOOSE c \in Collections(SeqPass2(Len(index))) : TRUE)

\* C8: every schedule of the document tasks returns the same graph, the one
\* the sequential schedule returns.
C8_Deterministic ==
    Done => result.nodes = SequentialGraph

\* ----------------------------------------------------------------- C9
\* C9: the nodes of the returned graph are in strictly ascending id order.
C9_NodesStrictlyAscending ==
    \A i, j \in 1..Len(result.nodes) :
       i < j => IdLess(result.nodes[i].id, result.nodes[j].id)

\* A graph was returned whose nodes were created in another order than
\* that of their ids.
C9_Witness ==
    /\ Done
    /\ Len(result.nodes) >= 2
    /\ \E n, m \in DOMAIN node_data :
          n < m /\ IdLess(node_data[m].id, node_data[n].id)

\* ---------------------------------------------------------------- C10
\* Range a encloses range b.
Encloses(a, b) == Contains(a, b) /\ a # b

NodeOf(sym) == node_data[symbol_to_node[sym]]

TicksPerSecond == 2
MaxMtime == 2
MaxChanges == 1
MaxRuns == 2

\* ----------------------------------------------------- Option and Result
None == [some |-> FALSE]
Some(v) == [some |-> TRUE, val |-> v]
Failed(e) == [ok |-> FALSE, error |-> e]
Fine(v) == [ok |-> TRUE, val |-> v]

\* --------------------------------------------------------------- files
TrackedFiles == {"f.rs", "g.rs"}
\* The files other programs edit while the cache is in use.
EditedFiles == {"f.rs"}
FileLists == {<<>>, <<"f.rs">>, <<"f.rs", "g.rs">>}
Mtimes == 0..MaxMtime
Contents == {"v1", "v2"}
Missing == [exists |-> FALSE, mtime |-> 0, content |-> "v1"]
SourceFile(t, c) == [exists |-> TRUE, mtime |-> t, content |-> c]

Absent == [kind |-> "absent"]
Unreadable == [kind |-> "unreadable"]
Exists(f) == f.kind # "absent"

\* Cargo.lock: two texts share first byte, last byte and length.
LockTexts == {<<1, 2, 1>>, <<1, 3, 1>>, <<1, 2>>}
Lockfile(bytes) == [kind |-> "file", bytes |-> bytes]
LockStates == {Absent, Unreadable} \cup {Lockfile(b) : b \in LockTexts}

IndexPath == "index.scip"
IndexFile(run) == [kind |-> "file", run |-> run]

\* ScipCacheMetadata::CURRENT_VERSION
CURRENT_VERSION == 1

\* ----------------------------------------------------- the JSON sidecar
\* The sidecar's text is either no JSON at all or a JSON object, a map
\* from member names to values; a string member is null or a string.
JsonNull == [null |-> TRUE]
JsonString(str) == [null |-> FALSE, string |-> str]
Garbage == [json |-> FALSE]
JsonObject(members) == [json |-> TRUE, object |-> members]
MetaFile(text) == [kind |-> "file", text |-> text]

ScipCacheMetadata(version, created_at, source_files, cargo_lock_hash) ==
    [version |-> version, created_at |-> created_at,
     source_files |-> source_files, cargo_lock_hash |-> cargo_lock_hash]

to_string_without_version(meta) ==
    JsonObject([created_at |-> meta.created_at,
                source_files |-> meta.source_files,
                cargo_lock_hash |-> JsonNull])

\* serde_json::to_string_pretty(&meta): every field becomes a member, an
\* absent cargo_lock_hash the member null.
to_string_pretty(meta) ==
    JsonObject([version |-> meta.version,
                created_at |-> meta.created_at,
                source_files |-> meta.source_files,
                cargo_lock_hash |->
                    IF meta.cargo_lock_hash.some
                    THEN JsonString(meta.cargo_lock_hash.val)
                    ELSE JsonNull])

\* serde_json::from_str::<ScipCacheMetadata>: the three plain fields are
\* required, an Option field may be missing or null.
from_str(text) ==
    IF ~text.json THEN Failed("syntax")
    ELSE IF ~({"version", "created_at", "source_files"}
                  \subseteq DOMAIN text.object)
    THEN Failed("missing field")
    ELSE Fine(ScipCacheMetadata(
             text.object.version, text.object.created_at,
             text.object.source_files,
             IF "cargo_lock_hash" \in DOMAIN text.object
                /\ ~text.object.cargo_lock_hash.null
             THEN Some(text.object.cargo_lock_hash.string)
             ELSE None))

\* ------------------------------------------------- format!("{:02x}...")
HexDigits ==
    <<"0", "1", "2", "3", "4", "5", "6", "7",
      "8", "9", "a", "b", "c", "d", "e", "f">>
RECURSIVE LowerHex(_)
LowerHex(n) ==
    IF n < 16 THEN HexDigits[n + 1]
    ELSE LowerHex(n \div 16) \o HexDigits[(n % 16) + 1]
RECURSIVE ZeroPad(_, _)
ZeroPad(str, width) ==
    IF Len(str) >= width THEN str ELSE ZeroPad("0" \o str, width)

\* ------------------------------------------------------ private helpers
load_metadata(meta) ==
    IF meta.kind # "file" THEN Failed("io") ELSE from_str(meta.text)

get_file_mtime(files, path) ==
    IF path \in DOMAIN files /\ files[path].exists
    THEN Fine(files[path].mtime \div TicksPerSecond)
    ELSE Failed("io")

validate_source_files_unchecked(meta, files) == TRUE

validate_source_files(meta, files) ==
    \A path \in DOMAIN meta.source_files :
        /\ get_file_mtime(files, path).ok
        /\ get_file_mtime(files, path).val = meta.source_files[path]

compute_cargo_lock_hash(lock) ==
    IF ~Exists(lock) THEN None
    ELSE IF lock.kind = "unreadable" THEN None
    ELSE LET len == Len(lock.bytes)
             first == IF len = 0 THEN 0 ELSE lock.bytes[1]
             last_byte == IF len = 0 THEN 0 ELSE lock.bytes[len]
         IN  Some(ZeroPad(LowerHex(first), 2) \o ZeroPad(LowerHex(last_byte), 2)
                  \o ZeroPad(LowerHex(len), 8))

validate_cargo_lock(meta, lock) ==
    meta.cargo_lock_hash = compute_cargo_lock_hash(lock)

\* -------------------------------------------------------- get_valid_cache
on_load_error_escalated(e) == [some |-> FALSE, error |-> e]

\* Err(e) => { println!(..); return None; }
on_load_error(e) == None

get_valid_cache(index_f, meta_f, files, lock) ==
    IF ~Exists(index_f) \/ ~Exists(meta_f) THEN None
    ELSE LET loaded == load_metadata(meta_f)
         IN  IF ~loaded.ok THEN on_load_error(loaded.error)
             ELSE IF loaded.val.version # CURRENT_VERSION THEN None
             ELSE IF ~validate_source_files(loaded.val, files) THEN None
             ELSE IF ~validate_cargo_lock(loaded.val, lock) THEN None
             ELSE Some(IndexPath)

\* -------------------------------------------------------- update_metadata
\* Every existing file under the workspace, whatever was asked for.
file_times_all(source_files, files) ==
    [path \in {q \in DOMAIN files : files[q].exists} |->
        get_file_mtime(files, path).val]

\* The map update_metadata builds: one entry per listed file whose mtime
\* can be read; a file that cannot be read is passed over silently.
file_times(source_files, files) ==
    [path \in {source_files[i] : i \in {j \in 1..Len(source_files) :
                   get_file_mtime(files, source_files[j]).ok}} |->
        get_file_mtime(files, path).val]

\* File::create: truncates an existing file or makes a new one; a file
\* whose mode grants nothing cannot be opened for writing either.
create(f) ==
    IF f.kind = "unreadable" THEN Failed("permission denied")
    ELSE Fine(MetaFile(Garbage))

\* The wall clock update_metadata stamps the sidecar with; no operation
\* reads created_at back.
Now == MaxMtime \div TicksPerSecond

update_metadata(source_files, files, lock, meta_f) ==
    LET meta == ScipCacheMetadata(CURRENT_VERSION, Now,
                                  file_times(source_files, files),
                                  compute_cargo_lock_hash(lock))
    IN  IF ~create(meta_f).ok
        THEN [ret |-> create(meta_f), meta_file |-> meta_f]
        ELSE [ret |-> Fine("()"),
              meta_file |-> MetaFile(to_string_pretty(meta))]

\* ------------------------------------------------------------- invalidate
\* fs::remove_file
remove_file(f) ==
    IF f.kind = "absent" THEN Failed("not found") ELSE Fine(Absent)

remove_without_test(f) == remove_file(f)

\* if path.exists() { fs::remove_file(path)?; }
remove_if_exists(f) == IF Exists(f) THEN remove_file(f) ELSE Fine(f)

invalidate_index_only(index_f, meta_f) ==
    [ret |-> Fine("()"), index_file |-> Absent, meta_file |-> meta_f]

invalidate(index_f, meta_f) ==
    LET first == remove_if_exists(index_f)
        second == remove_if_exists(meta_f)
    IN  IF ~first.ok
        THEN [ret |-> first, index_file |-> index_f, meta_file |-> meta_f]
        ELSE IF ~second.ok
        THEN [ret |-> second, index_file |-> first.val, meta_file |-> meta_f]
        ELSE [ret |-> Fine("()"), index_file |-> first.val,
              meta_file |-> second.val]

\* --------------------------------------- generate_scip_index_for_language
never_served(cached) == FALSE

\* if let Some(cached_path) = cache.get_valid_cache() { return Ok(..) }
served_from_cache(cached) == cached.some

\* What the indexer subprocess can do.
IndexerOutcomes ==
    {"not started", "failed", "succeeded", "succeeded, no output"}

\* ------------------------------------------------------------------ state
IngestAtRest ==
    /\ file = "missing"
    /\ index = <<>>
    /\ overflow_checks = FALSE
    /\ phase = "open"
    /\ definitions_by_file = EmptyMap
    /\ symbol_to_node = EmptyMap
    /\ node_counter = 0
    /\ node_data = EmptyMap
    /\ edge_counter = 0
    /\ pc = <<>>
    /\ pos = <<>>
    /\ file_defs = <<>>
    /\ caller_symbol = <<>>
    /\ result = NoResult

NoSnapshot == [taken |-> FALSE]
Snapshot(source_files) ==
    [taken |-> TRUE, source_files |-> source_files, src |-> src,
     lockfile |-> lockfile]
Idle == [pc |-> "idle"]

\* Sidecars that something other than update_metadata left behind.
ForeignSidecars ==
    {Unreadable,
     MetaFile(Garbage),
     MetaFile(JsonObject(EmptyMap)),
     MetaFile(to_string_pretty(
         ScipCacheMetadata(CURRENT_VERSION, 0, [p \in {"f.rs"} |-> 0], None))),
     MetaFile(to_string_pretty(
         ScipCacheMetadata(CURRENT_VERSION + 1, 0, EmptyMap, None))),
     MetaFile(JsonObject([version |-> CURRENT_VERSION, created_at |-> 0,
                          source_files |-> EmptyMap]))}

InitCache ==
    /\ IngestAtRest
    /\ StoreAtRest
    /\ FurtherAtRest
    /\ src \in [TrackedFiles -> {Missing, SourceFile(0, "v1")}]
    /\ lockfile \in {Absent, Lockfile(<<1, 2, 1>>)}
    /\ index_file = Absent
    /\ meta_file = Absent
    /\ gen = Idle
    /\ last = NoEvent
    /\ snapshot = NoSnapshot
    /\ indexer_runs = 0
    /\ changes = 0
    /\ indexed = Unrecorded

\* The same start with the history of the indexer's reads switched on.
InitIndexed ==
    /\ IngestAtRest
    /\ StoreAtRest
    /\ FurtherAtRest
    /\ src \in [TrackedFiles -> {Missing, SourceFile(0, "v1")}]
    /\ lockfile \in {Absent, Lockfile(<<1, 2, 1>>)}
    /\ index_file = Absent
    /\ meta_file = Absent
    /\ gen = Idle
    /\ last = NoEvent
    /\ snapshot = NoSnapshot
    /\ indexer_runs = 0
    /\ changes = 0
    /\ indexed = NoEvent

\* ------------------------------------- what other programs do to the files
Change ==
    /\ changes < MaxChanges
    /\ changes' = changes + 1
    /\ last' = [op |-> "change"]

\* A write gives the file new content and the time of the write.
WriteSource(path, c, t) ==
    /\ Change
    /\ src[path].exists => (c # src[path].content /\ t >= src[path].mtime)
    /\ src' = [src EXCEPT ![path] = SourceFile(t, c)]
    /\ UNCHANGED <<vars, store_vars, further, indexed, lockfile, index_file, meta_file, gen, snapshot,
                   indexer_runs>>

\* utimes: the modification time alone is set.
SetMtime(path, t) ==
    /\ Change
    /\ src[path].exists /\ t # src[path].mtime
    /\ src' = [src EXCEPT ![path].mtime = t]
    /\ UNCHANGED <<vars, store_vars, further, indexed, lockfile, index_file, meta_file, gen, snapshot,
                   indexer_runs>>

RemoveSource(path) ==
    /\ Change
    /\ src[path].exists
    /\ src' = [src EXCEPT ![path] = Missing]
    /\ UNCHANGED <<vars, store_vars, further, indexed, lockfile, index_file, meta_file, gen, snapshot,
                   indexer_runs>>

ChangeLockfile(lock) ==
    /\ Change
    /\ lock # lockfile
    /\ lockfile' = lock
    /\ UNCHANGED <<vars, store_vars, further, indexed, src, index_file, meta_file, gen, snapshot,
                   indexer_runs>>

PutIndex ==
    /\ Change
    /\ index_file # IndexFile(0)
    /\ index_file' = IndexFile(0)
    /\ indexed' = IF indexed = Unrecorded THEN indexed ELSE NoEvent
    /\ UNCHANGED <<vars, store_vars, further, src, lockfile, meta_file, gen, snapshot,
                   indexer_runs>>

PutSidecar(sidecar) ==
    /\ Change
    /\ sidecar # meta_file
    /\ meta_file' = sidecar
    /\ snapshot' = NoSnapshot
    /\ UNCHANGED <<vars, store_vars, further, indexed, src, lockfile, index_file, gen, indexer_runs>>

\* ------------------------------------------------- the cache's operations
\* An event names the operation, what it returned and the operation of the
\* event that came just before it.
\* Mutant of GetValidCache: a cache found stale is removed.
GetValidCacheEvicting ==
    LET found == get_valid_cache(index_file, meta_file, src, lockfile)
    IN  /\ gen.pc = "idle"
        /\ last' = [op |-> "get_valid_cache", result |-> found,
                    after |-> last.op]
        /\ index_file' = IF found.some THEN index_file ELSE Absent
        /\ meta_file' = IF found.some THEN meta_file ELSE Absent
        /\ snapshot' = IF found.some THEN snapshot ELSE NoSnapshot
        /\ UNCHANGED <<vars, store_vars, further, indexed, src, lockfile,
                       gen, indexer_runs, changes>>

GetValidCache ==
    /\ gen.pc = "idle"
    /\ last' = [op |-> "get_valid_cache",
                result |-> get_valid_cache(index_file, meta_file, src,
                                           lockfile),
                after |-> last.op]
    /\ UNCHANGED <<vars, store_vars, further, indexed, src, lockfile, index_file, meta_file, gen, snapshot,
                   indexer_runs, changes>>

UpdateMetadata(source_files) ==
    LET done == update_metadata(source_files, src, lockfile, meta_file)
    IN  /\ gen.pc = "idle"
        /\ meta_file' = done.meta_file
        /\ snapshot' = IF done.ret.ok THEN Snapshot(source_files) ELSE snapshot
        /\ last' = [op |-> "update_metadata", source_files |-> source_files,
                    result |-> done.ret, replaced |-> meta_file,
                    after |-> last.op]
        /\ UNCHANGED <<vars, store_vars, further, indexed, src, lockfile, index_file, gen, indexer_runs,
                       changes>>

Invalidate ==
    LET done == invalidate(index_file, meta_file)
    IN  /\ gen.pc = "idle"
        /\ index_file' = done.index_file
        /\ meta_file' = done.meta_file
        /\ snapshot' = IF done.meta_file = meta_file THEN snapshot
                       ELSE NoSnapshot
        /\ last' = [op |-> "invalidate", result |-> done.ret,
                    found |-> <<Exists(index_file), Exists(meta_file)>>,
                    after |-> last.op]
        /\ UNCHANGED <<vars, store_vars, further, indexed, src, lockfile, gen, indexer_runs, changes>>

\* ------------------------------------ generate_scip_index_for_language
Generated(ret, ran) ==
    [op |-> "generate", result |-> ret, ran_indexer |-> ran]

\* The cache lookup: a hit returns the cached path, a miss goes on to
\* generate_fresh_index.
GenCall(source_files) ==
    LET cached == get_valid_cache(index_file, meta_file, src, lockfile)
    IN  /\ gen.pc = "idle"
        /\ IF served_from_cache(cached)
           THEN /\ last' = [op |-> "generate", result |-> Fine(cached.val),
                            ran_indexer |-> FALSE, after |-> last.op]
                /\ UNCHANGED gen
           ELSE /\ indexer_runs < MaxRuns
                /\ gen' = [pc |-> "miss", source_files |-> source_files,
                           cached |-> cached]
                /\ last' = [op |-> "generate begun", after |-> last.op]
        /\ UNCHANGED <<vars, store_vars, further, indexed, src, lockfile, index_file, meta_file, snapshot,
                       indexer_runs, changes>>

\* check_indexer_available
GenProbe(available) ==
    /\ gen.pc = "miss"
    /\ IF available
       THEN gen' = [gen EXCEPT !.pc = "run"] /\ UNCHANGED last
       ELSE gen' = Idle /\ last' = Generated(Failed("no indexer"), FALSE)
    /\ UNCHANGED <<vars, store_vars, further, indexed, src, lockfile, index_file, meta_file, snapshot,
                   indexer_runs, changes>>

\* run_indexer_command and the test of its exit status
GenRunIndexer(outcome) ==
    /\ gen.pc = "run"
    /\ indexer_runs' = IF outcome = "not started" THEN indexer_runs
                       ELSE indexer_runs + 1
    /\ index_file' = IF outcome = "succeeded"
                     THEN IndexFile(indexer_runs + 1)
                     ELSE index_file
    /\ indexed' = IF outcome = "succeeded" /\ indexed # Unrecorded
                  THEN [op |-> "indexed", run |-> indexer_runs + 1,
                        src |-> src]
                  ELSE indexed
    /\ IF outcome \in {"succeeded", "succeeded, no output"}
       THEN gen' = [gen EXCEPT !.pc = "indexed"] /\ UNCHANGED last
       ELSE gen' = Idle
            /\ last' = Generated(Failed(outcome), outcome # "not started")
    /\ UNCHANGED <<vars, store_vars, further, src, lockfile, meta_file, snapshot, changes>>

\* The test that the output exists, the metadata update (a failure of
\* which is only warned about) and the return.
GenFinish ==
    LET done == update_metadata(gen.source_files, src, lockfile, meta_file)
        updates == Exists(index_file) /\ gen.source_files # <<>>
    IN  /\ gen.pc = "indexed"
        /\ gen' = Idle
        /\ meta_file' = IF updates THEN done.meta_file ELSE meta_file
        /\ snapshot' = IF updates /\ done.ret.ok
                       THEN Snapshot(gen.source_files) ELSE snapshot
        /\ last' = IF Exists(index_file)
                   THEN Generated(Fine(IndexPath), TRUE)
                   ELSE Generated(Failed("no output"), TRUE)
        /\ UNCHANGED <<vars, store_vars, further, indexed, src, lockfile, index_file, indexer_runs, changes>>

NextCache ==
    \/ \E path \in EditedFiles, c \in Contents, t \in Mtimes :
           WriteSource(path, c, t)
    \/ \E path \in EditedFiles, t \in Mtimes : SetMtime(path, t)
    \/ \E path \in EditedFiles : RemoveSource(path)
    \/ \E lock \in LockStates : ChangeLockfile(lock)
    \/ PutIndex
    \/ \E sidecar \in ForeignSidecars : PutSidecar(sidecar)
    \/ GetValidCache
    \/ \E source_files \in FileLists : UpdateMetadata(source_files)
    \/ Invalidate
    \/ \E source_files \in FileLists : GenCall(source_files)
    \/ \E available \in BOOLEAN : GenProbe(available)
    \/ \E outcome \in IndexerOutcomes : GenRunIndexer(outcome)
    \/ GenFinish

SpecCache == InitCache /\ [][NextCache]_cache_vars

\* The cache with the history `indexed` kept: what the indexer run behind
\* index.scip read.  SpecCache leaves it out, its states are those of the
\* files and of the calls alone.
SpecIndexed == InitIndexed /\ [][NextCache]_cache_vars

\* =================================================================
\* Properties of the SCIP cache
\*
\* Every event, a change by another program included, overwrites last:
\* while last names a cache operation, the files are as that operation
\* left them.

Hit == Some(IndexPath)
JustCalled(op) == last.op = op
SecondsOf(path) == src[path].mtime \div TicksPerSecond
\* The metadata the sidecar holds, when it can be loaded.
Recorded == load_metadata(meta_file).val

\* C11: get_valid_cache returns the cached index path only if index.scip
\* and index.scip.meta both exist, the sidecar's version is
\* CURRENT_VERSION, every source file the sidecar records exists with a
\* current mtime whose whole seconds equal the recorded ones, and the
\* recomputed lockfile fingerprint equals the recorded one.
C11_HitOnlyIfAllHold ==
    (JustCalled("get_valid_cache") /\ last.result = Hit) =>
        /\ index_file.kind = "file"
        /\ meta_file.kind = "file"
        /\ load_metadata(meta_file).ok
        /\ Recorded.version = CURRENT_VERSION
        /\ \A path \in DOMAIN Recorded.source_files :
               /\ path \in DOMAIN src
               /\ src[path].exists
               /\ SecondsOf(path) = Recorded.source_files[path]
        /\ Recorded.cargo_lock_hash = compute_cargo_lock_hash(lockfile)

\* A hit on a sidecar that records a source file and a fingerprint.
C11_Witness ==
    /\ JustCalled("get_valid_cache")
    /\ last.result = Hit
    /\ "f.rs" \in DOMAIN Recorded.source_files
    /\ Recorded.cargo_lock_hash.some

\* A get_valid_cache call that comes straight after an update_metadata
\* call which returned Ok: nothing happened to any file in between.
LookupRightAfterUpdate ==
    /\ GetValidCache
    /\ last.op = "update_metadata"
    /\ last.result.ok

\* C12: update_metadata([f]) followed immediately by get_valid_cache(),
\* with f unchanged on disk in between, returns the cached index path.
C12_RoundTrip ==
    [][(LookupRightAfterUpdate /\ last.source_files = <<"f.rs">>)
           => last'.result = Hit]_cache_vars

\* C12 as it holds: update_metadata(tracked_files), for any list, followed
\* immediately by get_valid_cache() returns the cached index path when
\* index.scip exists at that moment; update_metadata writes the sidecar
\* only, so without an index the lookup returns none.
C12_RoundTripWithIndex ==
    [][(LookupRightAfterUpdate /\ Exists(index_file))
           => last'.result = Hit]_cache_vars

\* A hit straight after update_metadata(["f.rs"]) recorded f.rs.
C12_Witness ==
    /\ JustCalled("get_valid_cache")
    /\ last.after = "update_metadata"
    /\ last.result = Hit
    /\ snapshot.taken
    /\ snapshot.source_files = <<"f.rs">>
    /\ "f.rs" \in DOMAIN Recorded.source_files

\* The sidecar is the one the latest successful update_metadata(["f.rs"])
\* wrote, f.rs existed then and exists now.
SidecarSnapshotsF ==
    /\ snapshot.taken
    /\ snapshot.source_files = <<"f.rs">>
    /\ snapshot.src["f.rs"].exists
    /\ src["f.rs"].exists

\* C13: after update_metadata([f]), mutating f's modification time or f's
\* content before the next get_valid_cache() makes that call return none.
C13_MutationInvalidates ==
    (/\ JustCalled("get_valid_cache")
     /\ SidecarSnapshotsF
     /\ \/ src["f.rs"].mtime # snapshot.src["f.rs"].mtime
        \/ src["f.rs"].content # snapshot.src["f.rs"].content)
        => last.result = None

\* C14: after invalidate() returns, the index artifact and the metadata
\* sidecar are both absent, and get_valid_cache() returns none until a new
\* index and a new sidecar are written: it returns none while either is
\* absent, and an absent artifact stays absent in every step that is not
\* a write of it.
C14_InvalidateIsTerminal ==
    /\ [](JustCalled("invalidate")
             => (index_file = Absent /\ meta_file = Absent))
    /\ []((JustCalled("get_valid_cache")
              /\ (index_file = Absent \/ meta_file = Absent))
             => last.result = None)
    /\ [][(index_file = Absent /\ index_file' # Absent)
             => (PutIndex \/ \E outcome \in IndexerOutcomes :
                                 GenRunIndexer(outcome))]_cache_vars
    /\ [][(meta_file = Absent /\ meta_file' # Absent)
             => \/ \E sidecar \in ForeignSidecars : PutSidecar(sidecar)
                \/ \E source_files \in FileLists : UpdateMetadata(source_files)
                \/ GenFinish]_cache_vars

\* invalidate has just removed an index and a sidecar that were there.
C14_Witness ==
    /\ JustCalled("invalidate")
    /\ last.found = <<TRUE, TRUE>>
    /\ index_file = Absent
    /\ meta_file = Absent

\* C15: invalidate() called when one or both artifacts are already absent
\* succeeds without error, and calling it twice in a row leaves the files
\* as calling it once does.
C15_InvalidateIdempotent ==
    LET once == invalidate(index_file, meta_file)
        again == invalidate(once.index_file, once.meta_file)
    IN  /\ JustCalled("invalidate") => last.result.ok
        /\ once.ret.ok
        /\ again.ret.ok
        /\ again.index_file = once.index_file
        /\ again.meta_file = once.meta_file

\* invalidate was called twice in a row; the second call found nothing.
C15_Witness ==
    /\ JustCalled("invalidate")
    /\ last.after = "invalidate"
    /\ last.found = <<FALSE, FALSE>>
    /\ last.result.ok

\* The files a list names.
Listed(source_files) == {source_files[i] : i \in 1..Len(source_files)}

\* C16: update_metadata(tracked_files) writes a sidecar that replaces the
\* previous one: its source_files map holds the current mtime (in whole
\* seconds) of each file of tracked_files (of each that exists: a file
\* without an mtime has no entry) and nothing else, its version is
\* CURRENT_VERSION and its lockfile fingerprint the current one.
C16_SidecarFullyReplaced ==
    (JustCalled("update_metadata") /\ last.result.ok) =>
        /\ meta_file.kind = "file"
        /\ load_metadata(meta_file).ok
        /\ DOMAIN Recorded.source_files =
               {path \in Listed(last.source_files) : src[path].exists}
        /\ \A path \in DOMAIN Recorded.source_files :
               Recorded.source_files[path] = SecondsOf(path)
        /\ Recorded.version = CURRENT_VERSION
        /\ Recorded.cargo_lock_hash = compute_cargo_lock_hash(lockfile)

\* update_metadata(["f.rs"]) replaced a sidecar that recorded g.rs, and
\* g.rs is still there.
C16_Witness ==
    /\ JustCalled("update_metadata")
    /\ last.result.ok
    /\ last.source_files = <<"f.rs">>
    /\ src["g.rs"].exists
    /\ load_metadata(last.replaced).ok
    /\ "g.rs" \in DOMAIN load_metadata(last.replaced).val.source_files
    /\ DOMAIN Recorded.source_files = {"f.rs"}

\* A step that is a call of generate_scip_index_for_language.
Called == \E source_files \in FileLists : GenCall(source_files)
\* The call was answered from the cache: Ok(index path), no indexer run.
ServedFromCache(event) ==
    /\ event.op = "generate"
    /\ event.result = Fine(IndexPath)
    /\ ~event.ran_indexer

\* C17: if generate_scip_index_for_language succeeds and is called again
\* for the same workspace with no tracked source file, lockfile or cache
\* artifact changed in between, the second call is served from the cache
\* and does not run the external indexer.
C17_SecondCallServedFromCache ==
    [][(Called /\ last.op = "generate" /\ last.result.ok)
           => ServedFromCache(last')]_cache_vars

\* C18: generate_scip_index_for_language runs the external indexer only
\* if get_valid_cache returned none in that call; when the cache is valid
\* the call returns the cached index path without running the indexer and
\* without modifying the index or the sidecar.
C18_CacheInFrontOfIndexer ==
    /\ [][(indexer_runs' # indexer_runs) => gen.cached = None]_cache_vars
    /\ [][(Called /\ get_valid_cache(index_file, meta_file, src, lockfile)
                        = Hit)
             => /\ ServedFromCache(last')
                /\ gen' = Idle
                /\ indexer_runs' = indexer_runs
                /\ index_file' = index_file
                /\ meta_file' = meta_file]_cache_vars

\* A call was served from the cache that an earlier call had filled by
\* running the indexer.
C18_Witness ==
    /\ ServedFromCache(last)
    /\ indexer_runs > 0
    /\ index_file = IndexFile(indexer_runs)
    /\ snapshot.taken

\* The sidecar can be loaded and records a source file that is missing.
TrackedFileMissing ==
    /\ load_metadata(meta_file).ok
    /\ \E path \in DOMAIN Recorded.source_files :
           path \notin DOMAIN src \/ ~src[path].exists

\* The states the lookup has to turn into a miss, the lockfile apart.
ValidationFails ==
    \/ index_file = Absent
    \/ meta_file = Absent
    \/ meta_file = Unreadable
    \/ ~load_metadata(meta_file).ok
    \/ Recorded.version # CURRENT_VERSION
    \/ TrackedFileMissing

\* C19: for every filesystem state with a missing index, a missing,
\* unreadable or malformed sidecar, a version mismatch, a missing tracked
\* file or an unreadable lockfile, get_valid_cache returns none, and it
\* never returns an error or panics.
C19_AdverseStatesMiss ==
    JustCalled("get_valid_cache") =>
        /\ last.result \in {None, Hit}
        /\ (ValidationFails \/ lockfile = Unreadable) => last.result = None

\* C19 as it holds: get_valid_cache never returns an error or panics; it
\* returns none for a missing index, a missing, unreadable or malformed
\* sidecar, a version mismatch and a missing tracked file.  An unreadable
\* lockfile is fingerprinted like an absent one: the call then returns
\* none when the sidecar records a fingerprint, and the index path when
\* the sidecar records none and nothing else fails.
C19_ValidationFailuresMiss ==
    JustCalled("get_valid_cache") =>
        /\ last.result \in {None, Hit}
        /\ ValidationFails => last.result = None
        /\ (lockfile = Unreadable /\ ~ValidationFails) =>
               (last.result = None <=> Recorded.cargo_lock_hash.some
                                       \/ ~validate_source_files(Recorded, src))

\* A lookup found an index and a sidecar it could not read.
C19_Witness ==
    /\ JustCalled("get_valid_cache")
    /\ index_file # Absent
    /\ meta_file = Unreadable
    /\ last.result = None

\* =================================================================
\* Part 3: the symbol store (src/src/domain/store.rs): one interface,
\* SymbolStore, over an in-memory backend (DashMap) and a disk backend
\* (sled trees holding bincode-encoded values).  One store operation is
\* one step.  Every operation of the sled store can fail; the disk
\* backend drops the error.

\* ------------------------------------------------------------------ bounds
\* insert_function calls per key.
MaxInserts == 2

StoreKeys == {"test::foo", "test::baz"}

FunctionSignature(name, is_public, receiver, location, crate_name) ==
    [name |-> name, is_public |-> is_public, receiver |-> receiver,
     location |-> location, crate_name |-> crate_name]
Signatures ==
    {FunctionSignature("foo", TRUE, Some("&self"), "test.rs:1", "test_crate"),
     FunctionSignature("baz", FALSE, None, "test.rs:1", "test_crate")}

\* ---------------------------------------------------------------- bincode
\* An encoded value is a sequence of fields: a u8, a u64, or raw bytes.
U8(n) == [u8 |-> n]
U64(n) == [u64 |-> n]
Raw(str) == [raw |-> str]

\* A String: its length, then its bytes.
EncodeString(str) == <<U64(Len(str)), Raw(str)>>
\* An Option<String>: the tag 0, or the tag 1 and the string.
EncodeOption(opt) ==
    IF opt.some THEN <<U8(1)>> \o EncodeString(opt.val) ELSE <<U8(0)>>

serialize_without_receiver(sig) ==
    Fine(EncodeString(sig.name) \o <<U8(IF sig.is_public THEN 1 ELSE 0)>>
         \o <<U8(0)>>
         \o EncodeString(sig.location) \o EncodeString(sig.crate_name))

\* bincode::serialize(&sig): the fields in declaration order.
serialize(sig) ==
    Fine(EncodeString(sig.name) \o <<U8(IF sig.is_public THEN 1 ELSE 0)>>
         \o EncodeOption(sig.receiver)
         \o EncodeString(sig.location) \o EncodeString(sig.crate_name))

Unread == [ok |-> FALSE]
Read(val, rest) == [ok |-> TRUE, val |-> val, rest |-> rest]

DecodeString(bytes) ==
    IF /\ Len(bytes) >= 2
       /\ DOMAIN bytes[1] = {"u64"}
       /\ DOMAIN bytes[2] = {"raw"}
       /\ Len(bytes[2].raw) = bytes[1].u64
    THEN Read(bytes[2].raw, SubSeq(bytes, 3, Len(bytes)))
    ELSE Unread

DecodeBool(bytes) ==
    IF Len(bytes) >= 1 /\ DOMAIN bytes[1] = {"u8"} /\ bytes[1].u8 \in {0, 1}
    THEN Read(bytes[1].u8 = 1, Tail(bytes))
    ELSE Unread

DecodeOption(bytes) ==
    IF Len(bytes) >= 1 /\ DOMAIN bytes[1] = {"u8"} /\ bytes[1].u8 = 0
    THEN Read(None, Tail(bytes))
    ELSE IF Len(bytes) >= 1 /\ DOMAIN bytes[1] = {"u8"} /\ bytes[1].u8 = 1
              /\ DecodeString(Tail(bytes)).ok
    THEN Read(Some(DecodeString(Tail(bytes)).val),
              DecodeString(Tail(bytes)).rest)
    ELSE Unread

\* bincode::deserialize::<FunctionSignature>(&bytes)
deserialize(bytes) ==
    LET name == DecodeString(bytes)
        is_public == IF name.ok THEN DecodeBool(name.rest) ELSE Unread
        receiver == IF is_public.ok THEN DecodeOption(is_public.rest)
                    ELSE Unread
        location == IF receiver.ok THEN DecodeString(receiver.rest)
                    ELSE Unread
        crate_name == IF location.ok THEN DecodeString(location.rest)
                      ELSE Unread
    IN  IF crate_name.ok
        THEN Fine(FunctionSignature(name.val, is_public.val, receiver.val,
                                    location.val, crate_name.val))
        ELSE Failed("bincode")

\* ------------------------------------------------------------ the two maps
PutIfAbsent(map, key, value) ==
    [k \in DOMAIN map \cup {key} |->
        IF k \in DOMAIN map THEN map[k] ELSE value]

\* DashMap::insert and sled::Tree::insert: the value replaces the old one.
Put(map, key, value) ==
    [k \in DOMAIN map \cup {key} |-> IF k = key THEN value ELSE map[k]]

\* DashMap::get and a successful sled::Tree::get
Get(map, key) == IF key \in DOMAIN map THEN Some(map[key]) ELSE None

\* What an operation of the sled store does: it works or it fails.
IoOutcomes == {"ok", "error"}
sled_insert(tree, key, bytes, io) ==
    IF io = "ok" THEN Fine(Put(tree, key, bytes)) ELSE Failed("sled")
sled_get(tree, key, io) ==
    IF io = "ok" THEN Fine(Get(tree, key)) ELSE Failed("sled")

\* str::as_bytes: a String is its UTF-8 bytes, the call is a view of them.
as_bytes(str) == str

\* ------------------------------------------------------- MemorySymbolStore
memory_insert_function(global_functions, key, sig) ==
    Put(global_functions, key, sig)

memory_get_function(global_functions, key) == Get(global_functions, key)

\* --------------------------------------------------------- DiskSymbolStore
\* if let Ok(bytes) = serialize(&sig) { let _ = tree.insert(key, bytes); }
disk_insert_function(functions_tree, key, sig, io) ==
    IF ~serialize(sig).ok THEN functions_tree
    ELSE LET put == sled_insert(functions_tree, as_bytes(key),
                                serialize(sig).val, io)
         IN  IF put.ok THEN put.val ELSE functions_tree

\* tree.get(key).ok().flatten().and_then(|bytes| deserialize(&bytes).ok())
disk_get_function(functions_tree, key, io) ==
    LET got == sled_get(functions_tree, as_bytes(key), io)
    IN  IF ~got.ok THEN None
        ELSE IF ~got.val.some THEN None
        ELSE IF ~deserialize(got.val.val).ok THEN None
        ELSE Some(deserialize(got.val.val).val)

\* ------------------------------------------------------- trait SymbolStore
insert_function(store, map, key, sig, io) ==
    IF store = "memory" THEN memory_insert_function(map, key, sig)
    ELSE disk_insert_function(map, key, sig, io)

get_function(store, map, key, io) ==
    IF store = "memory" THEN memory_get_function(map, key)
    ELSE disk_get_function(map, key, io)

\* ------------------------------------------------------------------ state
InitStore ==
    /\ IngestAtRest
    /\ CacheAtRest
    /\ FurtherAtRest
    /\ backend \in {"memory", "disk"}
    /\ functions = EmptyMap
    /\ store_last = NoEvent
    /\ inserted = [key \in StoreKeys |-> <<>>]
    /\ io_failed = FALSE

\* Only the sled store has operations that fail.
MayFail(io) == (io = "ok") \/ (backend = "disk")

InsertFunction(key, sig, io) ==
    /\ MayFail(io)
    /\ Len(inserted[key]) < MaxInserts
    /\ functions' = insert_function(backend, functions, key, sig, io)
    /\ inserted' = [inserted EXCEPT ![key] = Append(@, sig)]
    /\ io_failed' = (io_failed \/ io # "ok")
    /\ store_last' = [op |-> "insert_function", key |-> key, sig |-> sig]
    /\ UNCHANGED <<vars, cache_vars, further, backend>>

GetFunction(key, io) ==
    /\ MayFail(io)
    /\ io_failed' = (io_failed \/ io # "ok")
    /\ store_last' = [op |-> "get_function", key |-> key,
                      result |-> get_function(backend, functions, key, io)]
    /\ UNCHANGED <<vars, cache_vars, further, backend, functions, inserted>>

NextStore ==
    \/ \E key \in StoreKeys, sig \in Signatures, io \in IoOutcomes :
           InsertFunction(key, sig, io)
    \/ \E key \in StoreKeys \cup {"nonexistent"}, io \in IoOutcomes :
           GetFunction(key, io)

SpecStore == InitStore /\ [][NextStore]_store_vars

\* =================================================================
\* Properties of the symbol store

\* What the insert_function calls so far say get_function(key) returns.
LatestInserted(key) ==
    IF key \in DOMAIN inserted /\ inserted[key] # <<>>
    THEN Some(inserted[key][Len(inserted[key])])
    ELSE None

MaxCalls == 4
\* Operations of the sled store that fail.
MaxFaults == 1

Threads == {1, 2}
FunctionKeys == {"test::foo"}
TypeNames == {"Foo", "Foo::bar"}
MethodNames == {"baz", "bar::baz"}
\* The (type_name, method_name) pairs passed to insert_method and
\* get_method, and the (method_name, type_name) pairs passed to
\* register_method_lookup.
MethodPairs == {<<"Foo", "baz">>, <<"Foo::bar", "baz">>, <<"Foo", "bar::baz">>}
LookupPairs == {<<"baz", "Foo">>, <<"baz", "Foo::bar">>}

\* ---------------------------------------------------------------- bincode
RECURSIVE EncodeStrings(_)
EncodeStrings(strs) ==
    IF strs = <<>> THEN <<>>
    ELSE EncodeString(Head(strs)) \o EncodeStrings(Tail(strs))

\* bincode::serialize(&type_names) of a Vec<String>: its length, then
\* its strings.
serialize_type_names(type_names) ==
    Fine(<<U64(Len(type_names))>> \o EncodeStrings(type_names))

RECURSIVE DecodeStrings(_, _)
DecodeStrings(n, bytes) ==
    IF n = 0 THEN Read(<<>>, bytes)
    ELSE LET first == DecodeString(bytes)
             more == IF first.ok THEN DecodeStrings(n - 1, first.rest)
                     ELSE Unread
         IN  IF more.ok THEN Read(<<first.val>> \o more.val, more.rest)
             ELSE Unread

\* bincode::deserialize::<Vec<String>>(&bytes)
deserialize_type_names(bytes) ==
    IF /\ Len(bytes) >= 1
       /\ DOMAIN bytes[1] = {"u64"}
       /\ DecodeStrings(bytes[1].u64, Tail(bytes)).ok
    THEN Fine(DecodeStrings(bytes[1].u64, Tail(bytes)).val)
    ELSE Failed("bincode")

\* .filter_map(|tn| ...).collect(): the values that are there, in order.
RECURSIVE collect(_)
collect(options) ==
    IF options = <<>> THEN <<>>
    ELSE (IF Head(options).some THEN <<Head(options).val>> ELSE <<>>)
         \o collect(Tail(options))

\* ------------------------------------------------------- MemorySymbolStore
MemorySymbolStore_default ==
    [global_functions |-> EmptyMap, type_methods |-> EmptyMap,
     method_lookup |-> EmptyMap]

memory_insert_method(type_methods, type_name, method_name, sig) ==
    Put(type_methods, <<type_name, method_name>>, sig)

memory_get_method(type_methods, type_name, method_name) ==
    Get(type_methods, <<type_name, method_name>>)

memory_find_methods_by_name(store, method_name) ==
    LET type_names == Get(store.method_lookup, method_name)
    IN  IF type_names.some
        THEN collect([i \in 1..Len(type_names.val) |->
                        memory_get_method(store.type_methods,
                                          type_names.val[i], method_name)])
        ELSE <<>>

\* self.method_lookup.entry(method_name).or_default().push(type_name)
memory_register_method_lookup(method_lookup, method_name, type_name) ==
    LET or_default == IF method_name \in DOMAIN method_lookup
                      THEN method_lookup[method_name] ELSE <<>>
    IN  Put(method_lookup, method_name, Append(or_default, type_name))

\* --------------------------------------------------------- DiskSymbolStore
DiskSymbolStore_new ==
    [functions_tree |-> EmptyMap, methods_tree |-> EmptyMap,
     lookup_tree |-> EmptyMap]

\* format!("{}::{}", type_name, method_name)
method_key(type_name, method_name) == type_name \o "::" \o method_name

disk_insert_method(methods_tree, type_name, method_name, sig, io) ==
    LET key == method_key(type_name, method_name)
    IN  IF ~serialize(sig).ok THEN methods_tree
        ELSE LET put == sled_insert(methods_tree, as_bytes(key),
                                    serialize(sig).val, io)
             IN  IF put.ok THEN put.val ELSE methods_tree

disk_get_method(methods_tree, type_name, method_name, io) ==
    LET key == method_key(type_name, method_name)
        got == sled_get(methods_tree, as_bytes(key), io)
    IN  IF ~got.ok THEN None
        ELSE IF ~got.val.some THEN None
        ELSE IF ~deserialize(got.val.val).ok THEN None
        ELSE Some(deserialize(got.val.val).val)

\* The list of type names under method_name, or the default (empty)
\* list when the read or the decoding fails or nothing is stored.
read_type_names(lookup_tree, method_name, io) ==
    LET got == sled_get(lookup_tree, as_bytes(method_name), io)
    IN  IF ~got.ok THEN None
        ELSE IF ~got.val.some THEN None
        ELSE IF ~deserialize_type_names(got.val.val).ok THEN None
        ELSE Some(deserialize_type_names(got.val.val).val)

\* io_methods: the outcome of the read of each type's method.
disk_find_methods_by_name(store, method_name, io, io_methods) ==
    LET type_names == read_type_names(store.lookup_tree, method_name, io)
    IN  IF type_names.some
        THEN collect([i \in 1..Len(type_names.val) |->
                        disk_get_method(store.methods_tree,
                                        type_names.val[i], method_name,
                                        io_methods[type_names.val[i]])])
        ELSE <<>>

unwrap_or_default(option) == IF option.some THEN option.val ELSE <<>>

\* Vec::contains
vec_contains(type_names, type_name) ==
    \E i \in 1..Len(type_names) : type_names[i] = type_name

\* The second half of register_method_lookup: the list read is extended
\* and written back, unless it holds the type name already.
write_type_names(lookup_tree, method_name, type_name, type_names, io) ==
    IF vec_contains(type_names, type_name) THEN lookup_tree
    ELSE LET pushed == Append(type_names, type_name)
         IN  IF ~serialize_type_names(pushed).ok THEN lookup_tree
             ELSE LET put == sled_insert(lookup_tree, as_bytes(method_name),
                                         serialize_type_names(pushed).val, io)
                  IN  IF put.ok THEN put.val ELSE lookup_tree

\* ------------------------------------------------------------------ state
NotRegistering == [pc |-> "idle"]
NoCalls ==
    [functions |-> EmptyMap, methods |-> EmptyMap, lookups |-> {},
     count |-> 0]

InitBackends ==
    /\ IngestAtRest
    /\ CacheAtRest
    /\ StoreAtRest
    /\ LocksAtRest
    /\ RangesAtRest
    /\ BuildAtRest
    /\ ServerAtRest
    /\ memory_store = MemorySymbolStore_default
    /\ disk_store = DiskSymbolStore_new
    /\ registering = [t \in Threads |-> NotRegistering]
    /\ answer = NoEvent
    /\ called = NoCalls
    /\ faults = 0
    /\ raced = FALSE

\* No thread is inside register_method_lookup.
Quiet == \A t \in Threads : registering[t].pc = "idle"

Failures(ios) == Cardinality({i \in 1..Len(ios) : ios[i] # "ok"})
Affordable(ios) == faults + Failures(ios) <= MaxFaults

BothInsertFunction(key, sig, io) ==
    /\ called.count < MaxCalls
    /\ Affordable(<<io>>)
    /\ memory_store' =
          [memory_store EXCEPT !.global_functions =
              memory_insert_function(@, key, sig)]
    /\ disk_store' =
          [disk_store EXCEPT !.functions_tree =
              disk_insert_function(@, key, sig, io)]
    /\ called' = [called EXCEPT !.functions = Put(@, key, sig),
                                !.count = @ + 1]
    /\ faults' = faults + Failures(<<io>>)
    /\ answer' = NoEvent
    /\ UNCHANGED <<vars, cache_vars, store_vars, lock_vars, range_vars, build_vars,
                   server_vars,
                   registering, raced>>

BothInsertMethod(type_name, method_name, sig, io) ==
    /\ called.count < MaxCalls
    /\ Affordable(<<io>>)
    /\ memory_store' =
          [memory_store EXCEPT !.type_methods =
              memory_insert_method(@, type_name, method_name, sig)]
    /\ disk_store' =
          [disk_store EXCEPT !.methods_tree =
              disk_insert_method(@, type_name, method_name, sig, io)]
    /\ called' = [called EXCEPT
                    !.methods = Put(@, <<type_name, method_name>>, sig),
                    !.count = @ + 1]
    /\ faults' = faults + Failures(<<io>>)
    /\ answer' = NoEvent
    /\ UNCHANGED <<vars, cache_vars, store_vars, lock_vars, range_vars, build_vars,
                   server_vars,
                   registering, raced>>

\* A thread enters register_method_lookup: the disk backend reads the
\* list stored under the method name.
RegisterRead(t, method_name, type_name, io) ==
    /\ registering[t].pc = "idle"
    /\ called.count < MaxCalls
    /\ Affordable(<<io>>)
    /\ registering' =
          [registering EXCEPT ![t] =
              [pc |-> "read", method_name |-> method_name,
               type_name |-> type_name,
               type_names |->
                   unwrap_or_default(read_type_names(disk_store.lookup_tree,
                                                     method_name, io)),
               failed |-> io # "ok"]]
    /\ raced' = (raced \/ ~Quiet)
    /\ called' = [called EXCEPT !.count = @ + 1]
    /\ faults' = faults + Failures(<<io>>)
    /\ answer' = NoEvent
    /\ UNCHANGED <<vars, cache_vars, store_vars, lock_vars, range_vars, build_vars,
                   server_vars,
                   memory_store, disk_store>>

\* The thread leaves register_method_lookup: the disk backend writes the
\* list back, the memory backend pushes the type name.
RegisterWrite(t, io) ==
    LET call == registering[t]
    IN  /\ call.pc = "read"
        /\ Affordable(<<io>>)
        /\ vec_contains(call.type_names, call.type_name) => io = "ok"
        /\ memory_store' =
              [memory_store EXCEPT !.method_lookup =
                  memory_register_method_lookup(@, call.method_name,
                                                call.type_name)]
        /\ disk_store' =
              [disk_store EXCEPT !.lookup_tree =
                  write_type_names(@, call.method_name, call.type_name,
                                   call.type_names, io)]
        /\ registering' = [registering EXCEPT ![t] = NotRegistering]
        /\ called' = [called EXCEPT !.lookups =
                         @ \cup {<<call.method_name, call.type_name>>}]
        /\ faults' = faults + Failures(<<io>>)
        /\ answer' = NoEvent
        /\ UNCHANGED <<vars, cache_vars, store_vars, lock_vars, range_vars, build_vars,
                   server_vars,
                   raced>>

BothGetFunction(key, io) ==
    /\ Affordable(<<io>>)
    /\ answer' = [op |-> "get_function", key |-> key,
                  memory |-> memory_get_function(
                                 memory_store.global_functions, key),
                  disk |-> disk_get_function(disk_store.functions_tree,
                                             key, io),
                  failed |-> io # "ok", quiet |-> Quiet]
    /\ faults' = faults + Failures(<<io>>)
    /\ UNCHANGED <<vars, cache_vars, store_vars, lock_vars, range_vars, build_vars,
                   server_vars,
                   memory_store, disk_store,
                   registering, called, raced>>

BothGetMethod(type_name, method_name, io) ==
    /\ Affordable(<<io>>)
    /\ answer' = [op |-> "get_method", type_name |-> type_name,
                  method_name |-> method_name,
                  memory |-> memory_get_method(memory_store.type_methods,
                                               type_name, method_name),
                  disk |-> disk_get_method(disk_store.methods_tree,
                                           type_name, method_name, io),
                  failed |-> io # "ok", quiet |-> Quiet]
    /\ faults' = faults + Failures(<<io>>)
    /\ UNCHANGED <<vars, cache_vars, store_vars, lock_vars, range_vars, build_vars,
                   server_vars,
                   memory_store, disk_store,
                   registering, called, raced>>

\* The reads find_methods_by_name makes on the disk backend: that of the
\* list, then one per type name of the list.
ReadsOfFind(method_name, io, io_methods) ==
    LET type_names == read_type_names(disk_store.lookup_tree, method_name,
                                      io)
    IN  <<io>> \o (IF type_names.some
                   THEN [i \in 1..Len(type_names.val) |->
                            io_methods[type_names.val[i]]]
                   ELSE <<>>)

BothFindMethodsByName(method_name, io, io_methods) ==
    LET reads == ReadsOfFind(method_name, io, io_methods)
    IN  /\ Affordable(reads)
        /\ Failures(reads) =
              Failures(<<io>>) +
              Cardinality({tn \in TypeNames : io_methods[tn] # "ok"})
        /\ answer' = [op |-> "find_methods_by_name",
                      method_name |-> method_name,
                      memory |-> memory_find_methods_by_name(memory_store,
                                                             method_name),
                      disk |-> disk_find_methods_by_name(
                                   disk_store, method_name, io, io_methods),
                      failed |-> Failures(reads) > 0,
                      failed_list |-> io # "ok", quiet |-> Quiet]
        /\ faults' = faults + Failures(reads)
        /\ UNCHANGED <<vars, cache_vars, store_vars, lock_vars, range_vars, build_vars,
                   server_vars,
                   memory_store,
                       disk_store, registering, called, raced>>

NextBackends ==
    \/ \E key \in FunctionKeys, sig \in Signatures, io \in IoOutcomes :
           BothInsertFunction(key, sig, io)
    \/ \E pair \in MethodPairs, sig \in Signatures, io \in IoOutcomes :
           BothInsertMethod(pair[1], pair[2], sig, io)
    \/ \E t \in Threads, pair \in LookupPairs, io \in IoOutcomes :
           RegisterRead(t, pair[1], pair[2], io)
    \/ \E t \in Threads, io \in IoOutcomes : RegisterWrite(t, io)
    \/ \E key \in FunctionKeys \cup {"nonexistent"}, io \in IoOutcomes :
           BothGetFunction(key, io)
    \/ \E type_name \in TypeNames, method_name \in MethodNames,
          io \in IoOutcomes :
           BothGetMethod(type_name, method_name, io)
    \/ \E method_name \in MethodNames, io \in IoOutcomes,
          io_methods \in [TypeNames -> IoOutcomes] :
           BothFindMethodsByName(method_name, io, io_methods)

SpecBackends == InitBackends /\ [][NextBackends]_backends_vars

\* =================================================================
\* Properties of the two backends

AsSet(list) == {list[i] : i \in 1..Len(list)}

\* The signatures the calls so far have registered under a method name:
\* the latest one inserted for (type, method_name), for every type that
\* a register_method_lookup(method_name, type) call has named.
RegisteredSignatures(method_name) ==
    {called.methods[<<tn, method_name>>] :
        tn \in {tn \in TypeNames :
                   /\ <<method_name, tn>> \in called.lookups
                   /\ <<tn, method_name>> \in DOMAIN called.methods}}

\* The calls were made one after the other and none of them failed.
Sequential == ~raced /\ faults = 0

\* C21: on both backends find_methods_by_name(m) returns exactly the set
\* of signatures registered under m through register_method_lookup(m,
\* type) calls, across all types, in whatever order the insert_method and
\* register_method_lookup calls were made.
C21_FindReturnsRegistered ==
    (answer.op = "find_methods_by_name" /\ answer.quiet /\ Sequential) =>
        /\ AsSet(answer.memory) = RegisteredSignatures(answer.method_name)
        /\ AsSet(answer.disk) = RegisteredSignatures(answer.method_name)

Queries == {"get_function", "get_method", "find_methods_by_name"}

\* C22: the two backends are interchangeable: after any sequence of the
\* six operations made on both with no failing store operation, every
\* get_function, get_method and find_methods_by_name call returns the
\* same result on both, the returned list having the same entries and
\* the same length.
C22_BackendsAgree ==
    (answer.op \in Queries /\ answer.quiet /\ Sequential) =>
        answer.memory = answer.disk

\* C23: no registration is lost: once register_method_lookup(m, T1) and
\* register_method_lookup(m, T2), T1 # T2, have both returned, on
\* whatever threads and however interleaved, and both methods are
\* inserted, find_methods_by_name(m) includes the signatures of both on
\* both backends.
C23_NoRegistrationLost ==
    \A m \in MethodNames, t1 \in TypeNames, t2 \in TypeNames :
        ( /\ answer.op = "find_methods_by_name"
          /\ answer.method_name = m
          /\ answer.quiet
          /\ faults = 0
          /\ t1 # t2
          /\ {<<m, t1>>, <<m, t2>>} \subseteq called.lookups
          /\ {<<t1, m>>, <<t2, m>>} \subseteq DOMAIN called.methods )
        => /\ {called.methods[<<t1, m>>], called.methods[<<t2, m>>]}
                 \subseteq AsSet(answer.memory)
           /\ {called.methods[<<t1, m>>], called.methods[<<t2, m>>]}
                 \subseteq AsSet(answer.disk)

\* The type names the disk backend holds under a method name.
StoredTypeNames(store, method_name) ==
    AsSet(unwrap_or_default(read_type_names(store.lookup_tree, method_name,
                                            "ok")))

\* A failed query of the disk backend found nothing.
FailedQueryFindsNothing ==
    /\ (answer.op \in {"get_function", "get_method"} /\ answer.failed)
           => answer.disk = None
    /\ (answer.op = "find_methods_by_name" /\ answer.failed_list)
           => answer.disk = <<>>

\* An insert_function or insert_method call whose write failed left the
\* disk backend as it was.
FailedInsertChangesNothing ==
    (faults' > faults /\ called'.count > called.count
       /\ registering' = registering)
        => disk_store' = disk_store

\* A register_method_lookup call in which a read or the write failed,
\* no other registration overlapping it, left every type name stored
\* before in place.
FailedRegistrationLosesNothing ==
    \A t \in Threads :
        ( /\ registering[t].pc = "read"
          /\ registering'[t].pc = "idle"
          /\ registering[t].failed \/ faults' > faults
          /\ ~raced )
        => /\ disk_store'.functions_tree = disk_store.functions_tree
           /\ disk_store'.methods_tree = disk_store.methods_tree
           /\ \A m \in MethodNames :
                 StoredTypeNames(disk_store, m)
                     \subseteq StoredTypeNames(disk_store', m)

\* C24: in the disk backend a failing read, write or (de)serialization
\* is never propagated: get_function and get_method return none,
\* find_methods_by_name returns an empty list, and a failed insert or
\* registration returns normally and leaves the data stored before
\* unchanged.
C24_DiskFailuresLeaveDataAlone ==
    /\ []FailedQueryFindsNothing
    /\ [][FailedInsertChangesNothing /\ FailedRegistrationLosesNothing]_backends_vars

\* =================================================================
\* Part 5: SourceRange::contains and the size key of the definitions
\* sort (src/src/domain/scip_ingest.rs), called on ranges of every
\* shape: empty, single-line, multi-line, and with the end before the
\* start.  One call is one step; the functions keep no state, so a
\* behaviour is one call.

\* ------------------------------------------------------------------ bounds
\* The last line of the ranges.
MaxLine == 2
\* A column beyond K.
FarCol == 2000

Lines == 0..MaxLine
Cols == {0, 1, FarCol}
Ranges ==
    {SourceRange(sl, sc, el, ec) :
        sl \in Lines, sc \in Cols, el \in Lines, ec \in Cols}

InitRanges ==
    /\ IngestAtRest
    /\ CacheAtRest
    /\ StoreAtRest
    /\ LocksAtRest
    /\ BackendsAtRest
    /\ BuildAtRest
    /\ ServerAtRest
    /\ range_call = NoEvent

\* outer.contains(&inner)
CallContains(outer, inner) ==
    /\ range_call = NoEvent
    /\ range_call' = [op |-> "contains", self |-> outer, other |-> inner,
                      result |-> Contains(outer, inner)]
    /\ UNCHANGED <<vars, cache_vars, store_vars, lock_vars, backends_vars, build_vars,
                 server_vars>>

\* The comparator of the definitions sort computes the size key of two
\* definitions' ranges.
CallSizes(a, b) ==
    /\ range_call = NoEvent
    /\ range_call' = [op |-> "size", a |-> a, b |-> b,
                      a_size |-> RangeSize(a), b_size |-> RangeSize(b)]
    /\ UNCHANGED <<vars, cache_vars, store_vars, lock_vars, backends_vars, build_vars,
                 server_vars>>

NextRanges ==
    \/ /\ range_call = NoEvent
       /\ \E outer \in Ranges, inner \in Ranges : CallContains(outer, inner)
    \/ /\ range_call = NoEvent
       /\ \E a \in Ranges, b \in Ranges : CallSizes(a, b)

SpecRanges == InitRanges /\ [][NextRanges]_range_vars

\* =================================================================
\* Properties of SourceRange and the size key

\* (l1, c1) is not after (l2, c2), compared by line, then by column.
NotAfter(l1, c1, l2, c2) == l1 < l2 \/ (l1 = l2 /\ c1 <= c2)

\* C25: contains(outer, inner) holds if and only if inner's start
\* (line, col) is not before outer's start and inner's end (line, col)
\* is not after outer's end, both compared lexicographically, whatever
\* the ranges, those whose end precedes their start included.
C25_ContainsIsLexicographic ==
    range_call.op = "contains" =>
        LET outer == range_call.self
            inner == range_call.other
        IN  range_call.result <=>
                /\ NotAfter(outer.start_line, outer.start_col,
                            inner.start_line, inner.start_col)
                /\ NotAfter(inner.end_line, inner.end_col,
                            outer.end_line, outer.end_col)

\* A range whose end precedes its start was found inside another one on
\* the strength of its columns on a shared boundary line.
C25_Witness ==
    /\ range_call.op = "contains"
    /\ range_call.result
    /\ range_call.other.end_line < range_call.other.start_line
    /\ range_call.other.start_line = range_call.self.start_line
    /\ range_call.other.start_col > range_call.self.start_col

LineSpan(r) == r.end_line - r.start_line

\* C27: the size key makes any line difference dominate column
\* differences: of two ranges, the one with the strictly larger line
\* span has the strictly larger size, whatever their columns.
C27_LineSpanDominates ==
    range_call.op = "size" =>
        (LineSpan(range_call.a) > LineSpan(range_call.b)
            => range_call.a_size > range_call.b_size)

\* =================================================================
\* Further properties of ingest_and_build_graph

\* ------------------------------------------------------------------ bounds
\* The longest raw range handed to parse_scip_range on its own.
MaxRangeLen == 5

RawRanges == SeqsUpTo({0, 1}, MaxRangeLen)

\* The range a raw list stands for: [l, c1, c2] is (l, c1)-(l, c2),
\* [l1, c1, l2, c2] is (l1, c1)-(l2, c2), any other list the zero range.
RangeOf(raw) ==
    CASE Len(raw) = 3 ->
            [start_line |-> raw[1], start_col |-> raw[2],
             end_line |-> raw[1], end_col |-> raw[3]]
      [] Len(raw) = 4 ->
            [start_line |-> raw[1], start_col |-> raw[2],
             end_line |-> raw[3], end_col |-> raw[4]]
      [] OTHER ->
            [start_line |-> 0, start_col |-> 0, end_line |-> 0,
             end_col |-> 0]

\* The definition occurrences of a document, in document order.
DefOccurrences(d) ==
    SelectSeq(index[d].occurrences,
              LAMBDA o : o.symbol_roles % 2 = 1 /\ o.symbol # "")

Malformed(o) == Len(o.range) \notin {3, 4}

\* C26: parse_scip_range maps [l, c1, c2] to (l, c1)-(l, c2), [l1, c1,
\* l2, c2] to (l1, c1)-(l2, c2) and a list of any other length to the
\* zero range; it never fails: every definition collected in Pass 1
\* carries the range of its occurrence so decoded, and a readable index
\* never makes the call return an error, a malformed range included.
C26_RangesDecodedWithoutFailure ==
    /\ \A raw \in RawRanges : parse_scip_range(raw) = RangeOf(raw)
    /\ \A d \in Docs :
          pc[d] = "p1" =>
              \A i \in 1..Len(file_defs[d]) :
                  file_defs[d][i].range = RangeOf(DefOccurrences(d)[i].range)
    /\ phase = "failed" => file # "valid"
    /\ phase = "panicked" =>
          \E d \in Docs : \E i \in 1..Len(DefOccurrences(d)) :
              /\ ~Malformed(DefOccurrences(d)[i])
              /\ RangeSizeOverflows(RangeOf(DefOccurrences(d)[i].range))

\* An index whose definition and whose reference both carry a malformed
\* range was ingested: both decode to the zero range, the definition
\* contains the reference, and the graph has the edge.
C26_Witness ==
    /\ phase = "done"
    /\ result.status = "ok"
    /\ Len(index) = 1
    /\ Len(index[1].occurrences) = 2
    /\ \A i \in 1..2 : Malformed(index[1].occurrences[i])
    /\ \E i \in 1..Len(result.nodes) :
          /\ result.nodes[i].id = "D"
          /\ result.nodes[i].callees = <<"T">>

\* Bit 0 of the role bits of an occurrence is set.
BitZero(o) == o.symbol_roles % 2 = 1

\* The callees of all nodes.
AllCallees ==
    UNION {AsSet(node_data[n].callees) : n \in DOMAIN node_data}

\* The next occurrence of the task of document d.
NextOcc(d) == index[d].occurrences[pos[d] + 1]

\* A Pass-1 step handles its occurrence as a definition (a node for the
\* symbol exists afterwards and the task's list has grown by an entry
\* for it) if and only if the symbol is not empty and bit 0 is set;
\* otherwise it changes nothing.  It never adds an edge.
Pass1ByBitZero(d) ==
    P1Occurrence(d) =>
        /\ node_data' # node_data =>
              DOMAIN node_data' # DOMAIN node_data
        /\ AllCallees' = AllCallees
        /\ UNCHANGED edge_counter
        /\ IF NextOcc(d).symbol # "" /\ BitZero(NextOcc(d))
           THEN /\ NextOcc(d).symbol \in DOMAIN symbol_to_node'
                /\ Len(file_defs'[d]) = Len(file_defs[d]) + 1
                /\ file_defs'[d][Len(file_defs'[d])].symbol = NextOcc(d).symbol
           ELSE UNCHANGED <<symbol_to_node, node_data, node_counter,
                            file_defs>>

\* A Pass-2 step creates no node and no definitions-list entry; it can
\* add an edge only for a non-empty symbol with bit 0 clear, and then to
\* that symbol.
Pass2ByBitZero(d) ==
    P2Occurrence(d) =>
        /\ UNCHANGED <<symbol_to_node, node_counter, definitions_by_file,
                       file_defs>>
        /\ DOMAIN node_data' = DOMAIN node_data
        /\ IF NextOcc(d).symbol # "" /\ ~BitZero(NextOcc(d))
           THEN AllCallees' \subseteq AllCallees \cup {NextOcc(d).symbol}
           ELSE UNCHANGED <<node_data, edge_counter>>

\* The empty symbol is no node, no definition and no callee.
EmptySymbolIgnored ==
    /\ "" \notin DOMAIN symbol_to_node
    /\ \A n \in DOMAIN node_data : node_data[n].id # ""
    /\ "" \notin AllCallees
    /\ \A d \in Docs : \A i \in 1..Len(file_defs[d]) :
          file_defs[d][i].symbol # ""
    /\ \A path \in DOMAIN definitions_by_file :
          \A i \in 1..Len(definitions_by_file[path]) :
              definitions_by_file[path][i].symbol # ""

\* C28: an occurrence is classified by bit 0 of its role bits alone:
\* with a non-empty symbol it is handled as a definition, in Pass 1 only,
\* if and only if bit 0 is set, whatever the other bits, and as a
\* reference, in Pass 2 only, otherwise; an occurrence with an empty
\* symbol is ignored by both passes and yields no node, no
\* definitions-list entry and no edge.
C28_ClassifiedByBitZero ==
    /\ []EmptySymbolIgnored
    /\ [][\A d \in Docs : Pass1ByBitZero(d) /\ Pass2ByBitZero(d)]_vars

\* An ingestion ended in which an occurrence with role bits 3 was taken
\* as a definition and one with role bits 2 as a reference to a symbol
\* inside it.
C28_Witness ==
    /\ phase = "done"
    /\ Len(index) = 1
    /\ index[1].occurrences =
          <<Occ("E", 3, ROuter), Occ("T", 2, RRefIn)>>
    /\ "E" \in DOMAIN symbol_to_node
    /\ "T" \notin DOMAIN symbol_to_node
    /\ NodeOf("E").callees = <<"T">>

\* =================================================================
\* Part 6: SymbolIndex::build (src/src/domain/index.rs): the sources are
\* parsed in parallel, one closure per source; a closure that parses its
\* source indexes the items into the shared maps and returns the AST, a
\* closure that does not returns an AnalysisError; unzip gathers the
\* pairs in source order.

\* ------------------------------------------------------------------ bounds
\* The sources of one build call.
MaxSources == 3

\* ------------------------------------------------------------- the input
\* What syn finds in a file: free functions, impl blocks, inline or
\* out-of-line modules, and other items.
ItemFn(name, is_public, line) ==
    [item |-> "fn", name |-> name, is_public |-> is_public, line |-> line]
ImplItemFn(name, is_public, first_input, line) ==
    [impl_item |-> "fn", name |-> name, is_public |-> is_public,
     first_input |-> first_input, line |-> line]
ImplItemConst == [impl_item |-> "const"]
TypePath(segments) == [type |-> "path", segments |-> segments]
TypeReference == [type |-> "reference"]
ItemImpl(self_ty, items) ==
    [item |-> "impl", self_ty |-> self_ty, items |-> items]
ItemMod(content) == [item |-> "mod", content |-> content]
ItemStruct == [item |-> "struct"]

\* A source text either is a Rust file, with its items, or is not, with
\* the message of the parser.
RustFile(items) == [syntax |-> "ok", items |-> items]
NotRust(message) == [syntax |-> "error", message |-> message]

Codes ==
    {NotRust("expected identifier"),
     RustFile(<<>>),
     RustFile(<<ItemFn("run", TRUE, 1), ItemStruct>>),
     RustFile(<<ItemImpl(TypePath(<<"shapes", "Circle">>),
                         <<ImplItemFn("area", TRUE, "&self", 3),
                           ImplItemConst>>),
                ItemImpl(TypeReference,
                         <<ImplItemFn("area", FALSE, "self", 7)>>)>>),
     RustFile(<<ItemMod(Some(<<ItemFn("run", FALSE, 2),
                               ItemImpl(TypePath(<<"Square">>),
                                        <<ImplItemFn("area", FALSE,
                                                     "typed", 5)>>)>>)),
                ItemMod(None)>>)}

Digits == <<"0", "1", "2", "3", "4", "5", "6", "7", "8", "9">>
\* The {} of format! for a number: its decimal digits.
RECURSIVE Decimal(_)
Decimal(n) ==
    IF n < 10 THEN Digits[n + 1]
    ELSE Decimal(n \div 10) \o Digits[(n % 10) + 1]

Source(crate_name, file_path, code) ==
    [crate_name |-> crate_name, file_path |-> file_path, code |-> code]
\* The i-th source of a call is the file src/f<i>.rs of the crate app.
FileName(i) == "src/f" \o Decimal(i) \o ".rs"
SourceLists ==
    UNION {{[i \in 1..n |-> Source("app", FileName(i), code[i])] :
               code \in [1..n -> Codes]} : n \in 0..MaxSources}

\* ------------------------------------------------------------- the code
\* syn::parse_file(code)
parse_file(code) ==
    IF code.syntax = "ok" THEN Fine([items |-> code.items])
    ELSE Failed(code.message)

AnalysisError(file_path, error) == [file |-> file_path, error |-> error]

SymbolIndex_default ==
    [global_functions |-> EmptyMap, type_methods |-> EmptyMap,
     method_lookup |-> EmptyMap]

\* The Item::Fn arm of index_items.
index_fn(idx, crate_name, file_path, func) ==
    LET qualified_name == crate_name \o "::" \o func.name
        sig == FunctionSignature(func.name, func.is_public, None,
                   file_path \o ":" \o Decimal(func.line), crate_name)
    IN  [idx EXCEPT !.global_functions = Put(@, qualified_name, sig)]

\* method.sig.inputs.first().and_then(..): the receiver of a method.
receiver_of(first_input) ==
    IF first_input = "&self" THEN Some("&self")
    ELSE IF first_input = "self" THEN Some("self")
    ELSE None

\* The body of the loop over the items of an impl block, for a method.
index_method(idx, crate_name, file_path, type_name, method) ==
    LET sig == FunctionSignature(method.name, method.is_public,
                   receiver_of(method.first_input),
                   file_path \o ":" \o Decimal(method.line), crate_name)
        key == <<type_name, method.name>>
        or_default == IF method.name \in DOMAIN idx.method_lookup
                      THEN idx.method_lookup[method.name] ELSE <<>>
    IN  [idx EXCEPT !.type_methods = Put(@, key, sig),
                    !.method_lookup =
                        Put(@, method.name, Append(or_default, key))]

\* The functions and methods index_items visits, in the order in which
\* it visits them: those of an inline module in the module's place,
\* those of an impl block only if its self type is a path, under the
\* path's last segment.
RECURSIVE Visited(_)
Visited(items) ==
    IF items = <<>> THEN <<>>
    ELSE LET item == Head(items)
             here ==
                 CASE item.item = "fn" -> <<[visit |-> "fn", func |-> item]>>
                   [] item.item = "impl" ->
                        IF item.self_ty.type = "path"
                           /\ item.self_ty.segments # <<>>
                        THEN LET fns == SelectSeq(item.items,
                                     LAMBDA ii : ii.impl_item = "fn")
                                 last_segment ==
                                     item.self_ty.segments[
                                         Len(item.self_ty.segments)]
                             IN  [k \in 1..Len(fns) |->
                                     [visit |-> "method",
                                      type_name |-> last_segment,
                                      method |-> fns[k]]]
                        ELSE <<>>
                   [] item.item = "mod" ->
                        IF item.content.some THEN Visited(item.content.val)
                        ELSE <<>>
                   [] OTHER -> <<>>
         IN  here \o Visited(Tail(items))

index_visited(idx, crate_name, file_path, v) ==
    IF v.visit = "fn" THEN index_fn(idx, crate_name, file_path, v.func)
    ELSE index_method(idx, crate_name, file_path, v.type_name, v.method)

\* Mutant of error_pair: the error is dropped.
error_pair_dropped(file_path, error) == <<None, None>>

\* The Err arm of the closure.
error_pair(file_path, error) ==
    <<None, Some(AnalysisError(file_path, error))>>

\* The Ok arm of the closure, after index_items.
ast_pair(crate_name, file_path, ast) ==
    <<Some(<<crate_name, file_path, ast>>), None>>

\* ------------------------------------------------------------------ state
InitBuild ==
    /\ IngestAtRest
    /\ CacheAtRest
    /\ StoreAtRest
    /\ LocksAtRest
    /\ BackendsAtRest
    /\ RangesAtRest
    /\ ServerAtRest
    /\ sources \in SourceLists
    /\ build_task = [i \in 1..Len(sources) |-> [pc |-> "parse"]]
    /\ pairs = [i \in 1..Len(sources) |-> <<None, None>>]
    /\ symbol_index = SymbolIndex_default
    /\ build_result = NoEvent

\* match syn::parse_file(code)
ParseSource(i) ==
    /\ build_task[i].pc = "parse"
    /\ LET parsed == parse_file(sources[i].code)
       IN  IF parsed.ok
           THEN /\ build_task' = [build_task EXCEPT ![i] =
                       [pc |-> "index", ast |-> parsed.val, visited |-> 0]]
                /\ UNCHANGED pairs
           ELSE /\ build_task' = [build_task EXCEPT ![i] = [pc |-> "done"]]
                /\ pairs' = [pairs EXCEPT ![i] =
                       error_pair(sources[i].file_path, parsed.error)]
    /\ UNCHANGED <<vars, cache_vars, store_vars, lock_vars, backends_vars, range_vars,
                 server_vars,
                   sources, symbol_index, build_result>>

\* index_items reaches the next function or method of the AST.
IndexItem(i) ==
    /\ build_task[i].pc = "index"
    /\ build_task[i].visited < Len(Visited(build_task[i].ast.items))
    /\ symbol_index' =
          index_visited(symbol_index, sources[i].crate_name,
                        sources[i].file_path,
                        Visited(build_task[i].ast.items)[
                            build_task[i].visited + 1])
    /\ build_task' = [build_task EXCEPT ![i].visited = @ + 1]
    /\ UNCHANGED <<vars, cache_vars, store_vars, lock_vars, backends_vars, range_vars,
                 server_vars,
                   sources, pairs, build_result>>

\* index_items has returned; the closure returns the AST.
ReturnAst(i) ==
    /\ build_task[i].pc = "index"
    /\ build_task[i].visited = Len(Visited(build_task[i].ast.items))
    /\ pairs' = [pairs EXCEPT ![i] =
          ast_pair(sources[i].crate_name, sources[i].file_path,
                   build_task[i].ast)]
    /\ build_task' = [build_task EXCEPT ![i] = [pc |-> "done"]]
    /\ UNCHANGED <<vars, cache_vars, store_vars, lock_vars, backends_vars, range_vars,
                 server_vars,
                   sources, symbol_index, build_result>>

\* .unzip(), the two flattens, and the return.
ReturnBuild ==
    /\ build_result = NoEvent
    /\ \A i \in 1..Len(sources) : build_task[i].pc = "done"
    /\ build_result' =
          [op |-> "build", index |-> symbol_index,
           valid_asts |-> collect([i \in 1..Len(pairs) |-> pairs[i][1]]),
           collected_errors |->
               collect([i \in 1..Len(pairs) |-> pairs[i][2]])]
    /\ UNCHANGED <<vars, cache_vars, store_vars, lock_vars, backends_vars, range_vars,
                 server_vars,
                   sources, build_task, pairs, symbol_index>>

NextBuild ==
    \/ \E i \in 1..Len(sources) : ParseSource(i)
    \/ \E i \in 1..Len(sources) : IndexItem(i)
    \/ \E i \in 1..Len(sources) : ReturnAst(i)
    \/ ReturnBuild

SpecBuild == InitBuild /\ [][NextBuild]_build_vars

\* =================================================================
\* Properties of SymbolIndex::build

Returned == build_result # NoEvent

\* The source text is a Rust file.
IsRust(i) == sources[i].code.syntax = "ok"

AstsOf(file_path) ==
    {k \in 1..Len(build_result.valid_asts) :
        build_result.valid_asts[k][2] = file_path}
ErrorsOf(file_path) ==
    {k \in 1..Len(build_result.collected_errors) :
        build_result.collected_errors[k].file = file_path}

\* The index holds an entry for what index_items visited.
Indexed(idx, crate_name, v) ==
    IF v.visit = "fn"
    THEN (crate_name \o "::" \o v.func.name) \in DOMAIN idx.global_functions
    ELSE /\ <<v.type_name, v.method.name>> \in DOMAIN idx.type_methods
         /\ v.method.name \in DOMAIN idx.method_lookup
         /\ \E k \in 1..Len(idx.method_lookup[v.method.name]) :
               idx.method_lookup[v.method.name][k]
                   = <<v.type_name, v.method.name>>

\* Every source is in exactly one of the two lists build returned, the
\* ASTs if it is a Rust file and the errors, under its path, if not; the
\* index holds the functions and methods of every Rust file.
EverySourceAccounted ==
    Returned =>
        /\ Len(build_result.valid_asts) + Len(build_result.collected_errors)
              = Len(sources)
        /\ \A i \in 1..Len(sources) :
              /\ Cardinality(AstsOf(sources[i].file_path))
                    = (IF IsRust(i) THEN 1 ELSE 0)
              /\ Cardinality(ErrorsOf(sources[i].file_path))
                    = (IF IsRust(i) THEN 0 ELSE 1)
              /\ IsRust(i) =>
                    \A k \in 1..Len(Visited(sources[i].code.items)) :
                        Indexed(build_result.index, sources[i].crate_name,
                                Visited(sources[i].code.items)[k])

\* No step of the build takes an entry out of the index.
IndexOnlyGrows ==
    /\ DOMAIN symbol_index.global_functions
          \subseteq DOMAIN symbol_index'.global_functions
    /\ DOMAIN symbol_index.type_methods
          \subseteq DOMAIN symbol_index'.type_methods
    /\ \A m \in DOMAIN symbol_index.method_lookup :
          /\ m \in DOMAIN symbol_index'.method_lookup
          /\ Len(symbol_index.method_lookup[m])
                <= Len(symbol_index'.method_lookup[m])

\* A closure that has ended has returned its pair, that is, no closure
\* ends the build.
EveryClosureReturns ==
    \A i \in 1..Len(sources) :
        build_task[i].pc = "done" =>
            (pairs[i][1].some # pairs[i][2].some)

\* C29: SymbolIndex::build accepts partial success: every source ends up
\* in exactly one of the two outputs, the parsed ASTs if it parsed or the
\* errors, with its file path, if it did not, so that the two lists
\* together have as many entries as there are sources; a file that does
\* not parse neither aborts the build nor removes entries indexed from
\* the files that did.
C29_PartialSuccess ==
    /\ [](EverySourceAccounted /\ EveryClosureReturns)
    /\ [][IndexOnlyGrows]_build_vars

\* A build of three sources returned with an error for the one that is
\* no Rust file, two ASTs, and the function of another source indexed.
C29_Witness ==
    /\ Returned
    /\ Len(sources) = 3
    /\ ~IsRust(2)
    /\ Len(build_result.collected_errors) = 1
    /\ build_result.collected_errors[1].file = sources[2].file_path
    /\ Len(build_result.valid_asts) = 2
    /\ "app::run" \in DOMAIN build_result.index.global_functions

\* =================================================================
\* Part 7: the command server (src/src/api/server.rs): a thread per
\* connection reads request lines and writes one response line for each
\* command. One connection and its client are followed.

\* The client writes at most this many lines.
MaxRequests == 3

\* ---------------------------------------------------- the request lines
\* A line off the socket is a run of bytes up to a newline: bytes that
\* are no UTF-8, or text, which is whitespace around a body; the body is
\* empty or the text of a JSON value, or no JSON at all.
NoBody == [json |-> FALSE, empty |-> TRUE]
NotUtf8 == [utf8 |-> FALSE]
TextLine(spaces, text) == [utf8 |-> TRUE, spaces |-> spaces, text |-> text]

WorkspacePath == "/workspace"
InvalidPath == "/invalid/path/test"

Request(command) == JsonObject([command |-> JsonString(command)])
RequestWith(command, params) ==
    JsonObject([command |-> JsonString(command),
                params |-> JsonObject(params)])

RequestTexts ==
    { Garbage,
      JsonObject([params |-> JsonNull]),
      Request("PING"),
      Request("STATUS"),
      Request("SHUTDOWN"),
      Request("ANALYZE"),
      RequestWith("ANALYZE", [engine |-> JsonString("scip")]),
      RequestWith("ANALYZE", [path |-> JsonString(WorkspacePath),
                              engine |-> JsonString("syn")]),
      RequestWith("ANALYZE", [path |-> JsonString(InvalidPath)]),
      RequestWith("ANALYZE", [path |-> JsonString(WorkspacePath)]) }

RequestLines ==
    {NotUtf8, TextLine(0, NoBody), TextLine(2, NoBody),
     TextLine(1, Request("PING"))}
        \cup {TextLine(0, text) : text \in RequestTexts}

\* What the indexer and the ingestion of its index make of an existing
\* workspace: a graph, an error of either, or the panic of the ingestion
\* when a size key overflows in a build with overflow checks.
AnalyzeRuns == {"graph", "indexer failed", "ingest failed", "panicked"}
Panicked == [panic |-> TRUE]
Unwound(r) == "panic" \in DOMAIN r

\* ------------------------------------------------------------ the code
\* str::trim and str::is_empty
trim(line) == line.text
is_empty(text) == text = NoBody

\* serde_json::Value::get and Value::as_str
value_get(value, key) ==
    IF "object" \in DOMAIN value /\ key \in DOMAIN value.object
    THEN Some(value.object[key]) ELSE None
value_as_str(value) ==
    IF "string" \in DOMAIN value THEN Some(value.string) ELSE None
param_str(params, key) ==
    IF value_get(params, key).some
    THEN value_as_str(value_get(params, key).val) ELSE None

\* serde_json::from_str::<CommandReq>: command is a required string,
\* params an Option that may be missing or null.
CommandReq(command, params) == [command |-> command, params |-> params]
from_str_CommandReq(text) ==
    IF ~text.json THEN Failed("syntax")
    ELSE IF ~value_get(text, "command").some
    THEN Failed("missing field")
    ELSE IF ~value_as_str(value_get(text, "command").val).some
    THEN Failed("invalid type")
    ELSE Fine(CommandReq(
             value_as_str(value_get(text, "command").val).val,
             IF value_get(text, "params").some
                /\ value_get(text, "params").val # JsonNull
             THEN Some(value_get(text, "params").val)
             ELSE None))

path_exists(path) == path = WorkspacePath

handle_analyze(params, run) ==
    IF ~params.some THEN Failed("Missing params for ANALYZE")
    ELSE IF ~param_str(params.val, "path").some
    THEN Failed("Missing 'path' param")
    ELSE IF param_str(params.val, "engine").some
            /\ param_str(params.val, "engine").val # "scip"
    THEN Failed("Only 'scip' engine is supported in daemon mode")
    ELSE IF ~path_exists(param_str(params.val, "path").val)
    THEN Failed("Workspace path not found: "
                    \o param_str(params.val, "path").val)
    ELSE CASE run = "indexer failed" -> Failed("indexer failed")
           [] run = "ingest failed" -> Failed("Failed to ingest SCIP index")
           [] run = "panicked" -> Panicked
           [] OTHER -> Fine(JsonObject([nodes |-> JsonNull]))

process_command(json_str, run) ==
    LET req == from_str_CommandReq(json_str)
    IN  IF ~req.ok THEN Failed("Invalid JSON format")
        ELSE CASE req.val.command = "PING" -> Fine(JsonString("PONG"))
               [] req.val.command = "ANALYZE" ->
                      handle_analyze(req.val.params, run)
               [] req.val.command = "SHUTDOWN" ->
                      Fine(JsonString("Shutting down..."))
               [] OTHER -> Failed("Unknown command: " \o req.val.command)

\* json!({"status": .., ..}); request is history: the line it answers.
response_of(outcome, request) ==
    IF outcome.ok
    THEN [status |-> "success", data |-> outcome.val, request |-> request]
    ELSE [status |-> "error", message |-> outcome.error,
          request |-> request]

is_shutdown(text) ==
    /\ from_str_CommandReq(text).ok
    /\ from_str_CommandReq(text).val.command = "SHUTDOWN"

\* ------------------------------------------------------------ the state
InitServer ==
    /\ IngestAtRest
    /\ CacheAtRest
    /\ StoreAtRest
    /\ LocksAtRest
    /\ BackendsAtRest
    /\ RangesAtRest
    /\ BuildAtRest
    /\ sent = <<>>
    /\ inbox = 0
    /\ client = "writing"
    /\ connection = "open"
    /\ process_state = "running"
    /\ responses = <<>>

Serving == connection = "open" /\ process_state = "running"
NextRequest == Len(sent) - inbox + 1

\* The client writes a line to the socket.
ClientWrite(line) ==
    /\ client = "writing"
    /\ Len(sent) < MaxRequests
    /\ sent' = Append(sent, line)
    /\ inbox' = inbox + 1
    /\ UNCHANGED <<client, connection, process_state, responses>>
    /\ UNCHANGED <<vars, cache_vars, store_vars, lock_vars, backends_vars, range_vars,
                   build_vars>>

\* The client closes its socket.
ClientClose ==
    /\ client = "writing"
    /\ client' = "closed"
    /\ UNCHANGED <<sent, inbox, connection, process_state, responses>>
    /\ UNCHANGED <<vars, cache_vars, store_vars, lock_vars, backends_vars, range_vars,
                   build_vars>>

\* One turn of the loop of handle_connection on a line that has arrived:
\* read_line, trim, process_command, the two writes, the SHUTDOWN test.
\* A write may fail only once the client has closed its socket.
HandleLine(run, write) ==
    /\ Serving
    /\ inbox > 0
    /\ write = "failed" => client = "closed"
    /\ inbox' = inbox - 1
    /\ LET line == sent[NextRequest]
       IN  IF ~line.utf8
           THEN /\ connection' = "dropped"
                /\ UNCHANGED <<process_state, responses>>
           ELSE IF is_empty(trim(line))
           THEN UNCHANGED <<connection, process_state, responses>>
           ELSE LET outcome == process_command(trim(line), run)
                IN  IF Unwound(outcome) \/ write = "failed"
                    THEN /\ connection' = "dropped"
                         /\ UNCHANGED <<process_state, responses>>
                    ELSE /\ responses' =
                               Append(responses,
                                      response_of(outcome, NextRequest))
                         /\ process_state' =
                               IF is_shutdown(trim(line))
                               THEN "exited" ELSE "running"
                         /\ UNCHANGED connection
    /\ UNCHANGED <<sent, client>>
    /\ UNCHANGED <<vars, cache_vars, store_vars, lock_vars, backends_vars, range_vars,
                   build_vars>>

\* read_line returns 0: the client has closed and every line was read.
ReadEof ==
    /\ Serving
    /\ inbox = 0
    /\ client = "closed"
    /\ connection' = "ended"
    /\ UNCHANGED <<sent, inbox, client, process_state, responses>>
    /\ UNCHANGED <<vars, cache_vars, store_vars, lock_vars, backends_vars, range_vars,
                   build_vars>>

NextServer ==
    \/ \E line \in RequestLines : ClientWrite(line)
    \/ ClientClose
    \/ \E run \in AnalyzeRuns, write \in {"written", "failed"} :
           HandleLine(run, write)
    \/ ReadEof

SpecServer == InitServer /\ [][NextServer]_server_vars

\* =================================================================
\* Properties of the command server

\* The server will do no more for the lines sent so far.
ServerSettled == inbox = 0 \/ ~Serving

IsBlank(k) == sent[k].utf8 /\ is_empty(trim(sent[k]))
IsShutdownLine(k) == sent[k].utf8 /\ is_shutdown(trim(sent[k]))

\* The lines that are due a response: the lines that are not blank, up to
\* and including the first SHUTDOWN, which ends the process.
DueRequests ==
    {k \in 1..Len(sent) :
        /\ ~IsBlank(k)
        /\ \A j \in 1..(k - 1) : ~IsShutdownLine(j)}

RECURSIVE Ascending(_)
Ascending(set) ==
    IF set = {} THEN <<>>
    ELSE LET least == CHOOSE k \in set : \A j \in set : k <= j
         IN  <<least>> \o Ascending(set \ {least})

AnsweredRequests == [i \in 1..Len(responses) |-> responses[i].request]

\* The commands the claim lists as failing, and PING.
FailsAsListed(k) ==
    /\ sent[k].utf8
    /\ LET req == from_str_CommandReq(trim(sent[k]))
       IN  \/ ~req.ok
           \/ req.val.command \notin {"PING", "ANALYZE", "SHUTDOWN"}
           \/ /\ req.val.command = "ANALYZE"
              /\ \/ ~req.val.params.some
                 \/ ~param_str(req.val.params.val, "path").some
                 \/ param_str(req.val.params.val, "path").val
                        = InvalidPath
IsPing(k) ==
    /\ sent[k].utf8
    /\ ~is_empty(trim(sent[k]))
    /\ from_str_CommandReq(trim(sent[k])).ok
    /\ from_str_CommandReq(trim(sent[k])).val.command = "PING"

\* C30: while the client is there, once the server has handled the lines
\* sent so far, the response lines answer exactly the lines that are not
\* blank, one each and in request order (up to a SHUTDOWN, which ends the
\* process); a failing command is answered with status "error", a PING
\* with status "success" and data "PONG", whatever came before it.
C30_EveryLineAnswered ==
    /\ (client = "writing" /\ ServerSettled)
           => AnsweredRequests = Ascending(DueRequests)
    /\ \A i \in 1..Len(responses) :
           /\ FailsAsListed(responses[i].request)
                  => responses[i].status = "error"
           /\ IsPing(responses[i].request)
                  => /\ responses[i].status = "success"
                     /\ responses[i].data = JsonString("PONG")

\* =================================================================
\* Properties of the caller resolution and of the returned edges

\* The definitions of the list a Pass-2 task reads that contain the
\* reference it has just handled.
HitsOf(d) ==
    {j \in 1..Len(file_defs[d]) :
        Contains(file_defs[d][j].range, parse_scip_range(LastOcc(d).range))}

\* ---------------------------------------------------------------- C31
\* C31: the caller recorded for a reference is the innermost enclosing
\* definition: among the definitions whose range contains the
\* reference's range, the resolved caller is one that has no smaller
\* containing definition inside it.
C31_InnermostIsCaller ==
    \A d \in Docs :
       (JustResolved(d) /\ HitsOf(d) # {}) =>
          \E k \in HitsOf(d) :
             /\ caller_symbol[d] = file_defs[d][k].symbol
             /\ \A j \in HitsOf(d) :
                   ~(/\ Encloses(file_defs[d][k].range, file_defs[d][j].range)
                     /\ RangeSize(file_defs[d][j].range)
                            < RangeSize(file_defs[d][k].range))

\* ---------------------------------------------------------------- C34
\* Document d holds a definition occurrence of caller and, inside that
\* definition's range, a reference occurrence of callee.
WitnessedIn(d, caller, callee) ==
    \E j \in 1..Len(DefsOf(index[d])) : \E k \in RefsOf(d) :
       /\ DefsOf(index[d])[j].symbol = caller
       /\ index[d].occurrences[k].symbol = callee
       /\ Contains(DefsOf(index[d])[j].range, RefRange(d, k))

EdgeWitnessed(node) ==
    \A i \in 1..Len(node.callees) :
       /\ node.callees[i] # node.id
       /\ \E d \in Docs : WitnessedIn(d, node.id, node.callees[i])

\* C34: every edge has a witness in a single document: when C is among
\* the callees of node D, some document holds a definition occurrence of
\* D and a reference occurrence of C, C different from D, whose range is
\* contained in that definition's range; in the node table at every
\* moment and in the returned graph, shared relative_paths included.
C34_EdgesWitnessedInOneDocument ==
    /\ \A n \in DOMAIN node_data : EdgeWitnessed(node_data[n])
    /\ \A i \in 1..Len(result.nodes) : EdgeWitnessed(result.nodes[i])

\* ---------------------------------------------------------------- C38
IsPrefix(s, t) == Len(s) <= Len(t) /\ SubSeq(t, 1, Len(s)) = s
NodeIds(nodes) == {nodes[n].id : n \in DOMAIN nodes}

\* Pass 1 creates nodes with empty callees and adds no edge.
Pass1AddsNoEdge ==
    (phase \in {"open", "map", "parse", "pass1"}) =>
        /\ edge_counter = 0
        /\ \A n \in DOMAIN node_data : node_data[n].callees = <<>>

\* From the barrier on the node ids are fixed and callees only grow.
Pass2OnlyAppends ==
    (phase = "pass2") =>
        /\ DOMAIN node_data' = DOMAIN node_data
        /\ \A n \in DOMAIN node_data :
              /\ node_data'[n].id = node_data[n].id
              /\ IsPrefix(node_data[n].callees, node_data'[n].callees)

\* C38: Pass 1 creates nodes with empty callees and adds no edge, Pass 2
\* only appends callees to existing nodes: the node ids at the barrier
\* are the node ids of the returned graph, and every callees list only
\* grows during Pass 2.
C38_PassesTouchDisjointParts ==
    /\ []Pass1AddsNoEdge
    /\ [][Pass2OnlyAppends]_vars
    /\ [](Done => /\ {result.nodes[i].id : i \in 1..Len(result.nodes)}
                       = NodeIds(node_data)
                  /\ NodeIds(node_data) = DefinedSymbols)

\* A graph was returned in which a node created in Pass 1 got two callees
\* in Pass 2.
C38_Witness ==
    /\ Done
    /\ \E n \in DOMAIN node_data : Len(node_data[n].callees) >= 2

\* ---------------------------------------------------------------- C39
\* Indexes for the ties of the size sort: a document with two definitions
\* of equal size key around a reference, behind a document that may hold
\* the same two definitions in either order, under the same path or not.
Tied(first, second) == <<Occ(first, 1, ROuter), Occ(second, 1, ROuter)>>

TiedIndexes ==
    {<<Doc(p, before), Doc(q, defs \o <<Occ("T", 0, RRefIn)>>)>> :
        p \in Paths, q \in Paths,
        before \in {<<>>, Tied("D", "E"), Tied("E", "D")},
        defs \in {Tied("D", "E"), Tied("E", "D")}}

InitTies ==
    /\ file = "valid"
    /\ index \in TiedIndexes
    /\ overflow_checks = FALSE
    /\ phase = "open"
    /\ definitions_by_file = EmptyMap
    /\ symbol_to_node = EmptyMap
    /\ node_counter = 0
    /\ node_data = EmptyMap
    /\ edge_counter = 0
    /\ pc = [d \in 1..Len(index) |-> "p1"]
    /\ pos = [d \in 1..Len(index) |-> 0]
    /\ file_defs = [d \in 1..Len(index) |-> <<>>]
    /\ caller_symbol = [d \in 1..Len(index) |-> NoCaller]
    /\ result = NoResult
    /\ CacheAtRest
    /\ StoreAtRest
    /\ FurtherAtRest

SpecTies == InitTies /\ [][Next]_vars

\* The definitions of document d, in occurrence order, that contain the
\* reference its task has just handled, and those of them whose size key
\* is the largest.
OwnHits(d) ==
    {j \in 1..Len(DefsOf(index[d])) :
        Contains(DefsOf(index[d])[j].range,
                 parse_scip_range(LastOcc(d).range))}
TopHits(d) ==
    {j \in OwnHits(d) :
        \A i \in OwnHits(d) :
           RangeSize(DefsOf(index[d])[i].range)
               <= RangeSize(DefsOf(index[d])[j].range)}

\* C39: when several definitions of a document have the same size key
\* and all contain a reference (and no containing definition has a
\* larger key), the resolved caller is the one of them that occurs first
\* in the document's occurrence order, whatever the schedule.
C39_TiesKeepEncounterOrder ==
    \A d \in Docs :
       (JustResolved(d) /\ Cardinality(TopHits(d)) >= 2) =>
          caller_symbol[d] =
             DefsOf(index[d])[CHOOSE j \in TopHits(d) :
                                 \A i \in TopHits(d) : j <= i].symbol

\* =================================================================
\* Further properties of the SCIP cache

\* index.scip is the output of an indexer run of generate_fresh_index.
ProducedByGeneration ==
    /\ index_file.kind = "file"
    /\ indexed.op = "indexed"
    /\ index_file = IndexFile(indexed.run)

\* Two states of a file that an indexer reads alike.
SameState(a, b) == a.exists = b.exists /\ (a.exists => a.content = b.content)

\* ---------------------------------------------------------------- C32
\* C32: whenever get_valid_cache returns the index path and the index is
\* the output of a generation whose sidecar update_metadata wrote, the
\* indexer run read every file the sidecar tracks in the state that is on
\* disk now: no modification made after the indexer read a file, be it
\* before or after the snapshot, is left undetected.
C32_ValidCacheReflectsSources ==
    (/\ JustCalled("get_valid_cache")
     /\ last.result = Hit
     /\ snapshot.taken
     /\ ProducedByGeneration)
        => \A path \in DOMAIN Recorded.source_files :
               SameState(indexed.src[path], src[path])

\* ---------------------------------------------------------------- C33
\* C33: get_valid_cache returns the cached path only if Cargo.lock is as
\* the latest update_metadata saw it: after any change of its content, its
\* creation or its removal since that snapshot the call returns none.
C33_LockfileChangeInvalidates ==
    (/\ JustCalled("get_valid_cache")
     /\ last.result = Hit
     /\ snapshot.taken
     /\ lockfile # Unreadable
     /\ snapshot.lockfile # Unreadable)
        => lockfile = snapshot.lockfile

\* ---------------------------------------------------------------- C37
\* C37: get_valid_cache creates, modifies and deletes nothing: the index,
\* the sidecar, the lockfile and the tracked files are after the call as
\* before it, also when the cache is stale; and a call that follows
\* another with no change of any file in between returns what that one
\* returned.
C37_LookupIsPure ==
    [][GetValidCache =>
          /\ index_file' = index_file
          /\ meta_file' = meta_file
          /\ src' = src
          /\ lockfile' = lockfile
          /\ last.op = "get_valid_cache" => last'.result = last.result]_cache_vars

\* Two calls in a row reported a stale cache, a sidecar of update_metadata
\* and an index that are still on disk.
C37_Witness ==
    /\ JustCalled("get_valid_cache")
    /\ last.after = "get_valid_cache"
    /\ last.result = None
    /\ snapshot.taken
    /\ Exists(index_file)
    /\ meta_file.kind = "file"

\* =================================================================
\* Further properties of the two backends

\* ---------------------------------------------------------------- C35
\* C35: distinct (type_name, method_name) pairs never alias: once
\* insert_method was called for a pair, get_method of that pair returns,
\* on both backends, the signature last inserted for that very pair,
\* whatever was inserted for other pairs, names that contain "::"
\* included (no store operation having failed).
C35_MethodPairsNeverAlias ==
    (/\ answer.op = "get_method"
     /\ faults = 0
     /\ <<answer.type_name, answer.method_name>> \in DOMAIN called.methods)
        => /\ answer.memory =
                 Some(called.methods[<<answer.type_name, answer.method_name>>])
           /\ answer.disk =
                 Some(called.methods[<<answer.type_name, answer.method_name>>])


\* =================================================================
\* Part 8: ingest_and_build_graph at the level of the shard locks
\* =================================================================
\* Every access to a DashMap locks the shard of its key: entry(), insert()
\* and get_mut() for writing, get() for reading.  The steps below are the
\* steps of Part 1 with each occurrence split at the places where a lock
\* of symbol_to_node or node_data is taken or given back.
\* definitions_by_file is touched by insert() and by get().map(clone) only:
\* each takes and gives back its shard lock within the one call, while the
\* task holds nothing else, so P1Finish and P2Begin stay single steps.

LockedMaps == {"symbol_to_node", "node_data"}

\* Occurrences of the indexes ingested at lock level.
PoolLocks ==
    { Occ("D", 1, ROuter), Occ("E", 1, ROuter), Occ("D", 0, RRefIn) }

LockIndexes ==
    UNION {[1..n -> {Doc(p, o) : p \in Paths, o \in SeqsUpTo(PoolLocks, MaxOccs)}]
           : n \in 0..MaxDocs}

\* The shard of a key.  The hash is left open: the keys of a map either
\* fall into one shard or each into a shard of its own.
ShardOf(map, key) == IF collide[map] THEN 0 ELSE key
SymbolShard(sym) == ShardOf("symbol_to_node", Rank(sym))
NodeShard(id) == ShardOf("node_data", id + 1)

Lock(map, shard, mode) == <<map, shard, mode>>
Holders(map, shard) ==
    {d \in Docs : \E mode \in {"read", "write"} : Lock(map, shard, mode) \in held[d]}
Writers(map, shard) ==
    {d \in Docs : Lock(map, shard, "write") \in held[d]}

\* RwLock: a writer needs the shard to itself, a reader needs no writer.
\* The lock is not reentrant: a task's own hold blocks it as well.
CanWrite(map, shard) == Holders(map, shard) = {}
CanRead(map, shard) == Writers(map, shard) = {}

InitLocks ==
    /\ file = "valid"
    /\ index \in LockIndexes
    /\ overflow_checks = FALSE
    /\ phase = "open"
    /\ definitions_by_file = EmptyMap
    /\ symbol_to_node = EmptyMap
    /\ node_counter = 0
    /\ node_data = EmptyMap
    /\ edge_counter = 0
    /\ pc = [d \in 1..Len(index) |-> "p1"]
    /\ pos = [d \in 1..Len(index) |-> 0]
    /\ file_defs = [d \in 1..Len(index) |-> <<>>]
    /\ caller_symbol = [d \in 1..Len(index) |-> NoCaller]
    /\ result = NoResult
    /\ collide \in [LockedMaps -> BOOLEAN]
    /\ held = [d \in 1..Len(index) |-> {}]
    /\ at = [d \in 1..Len(index) |-> "idle"]
    /\ CacheAtRest
    /\ StoreAtRest
    /\ BackendsAtRest
    /\ RangesAtRest
    /\ BuildAtRest
    /\ ServerAtRest

others == <<cache_vars, store_vars, backends_vars, range_vars, build_vars,
            server_vars>>

InP1Loop(d) ==
    phase = "pass1" /\ pc[d] = "p1" /\ pos[d] < Len(index[d].occurrences)
InP2Loop(d) == pc[d] = "p2" /\ pos[d] < Len(index[d].occurrences)
IsDefinition(o) == is_definition(o) /\ o.symbol # ""

\* ----------------------------------------------------------------- Pass 1
\* An occurrence that is no definition: the loop goes on, no map is touched.
P1Skip(d) ==
    /\ InP1Loop(d)
    /\ at[d] = "idle"
    /\ ~IsDefinition(NextOcc(d))
    /\ pos' = [pos EXCEPT ![d] = @ + 1]
    /\ UNCHANGED <<others, input, phase, shared, pc, file_defs, caller_symbol,
                   result, lock_vars>>

\* symbol_to_node.entry(symbol): the shard of the symbol is locked for
\* writing; the task waits while another holds it.
P1Entry(d) ==
    /\ InP1Loop(d)
    /\ at[d] = "idle"
    /\ IsDefinition(NextOcc(d))
    /\ CanWrite("symbol_to_node", SymbolShard(NextOcc(d).symbol))
    /\ held' = [held EXCEPT ![d] =
           @ \cup {Lock("symbol_to_node", SymbolShard(NextOcc(d).symbol), "write")}]
    /\ at' = [at EXCEPT ![d] = "entry"]
    /\ UNCHANGED <<others, vars, collide>>

\* or_insert_with on a vacant entry: fetch_add, then node_data.insert(id, ..)
\* locks the shard of the new id for writing, with the entry still held.
P1NodeInsert(d) ==
    /\ at[d] = "entry"
    /\ NextOcc(d).symbol \notin DOMAIN symbol_to_node
    /\ CanWrite("node_data", NodeShard(node_counter))
    /\ LET reg == RegisterSymbol(symbol_to_node, node_data, node_counter,
                                 NextOcc(d).symbol)
       IN  /\ symbol_to_node' = reg.symbol_to_node
           /\ node_data' = reg.node_data
           /\ node_counter' = reg.node_counter
    /\ held' = [held EXCEPT ![d] =
           @ \cup {Lock("node_data", NodeShard(node_counter), "write")}]
    /\ at' = [at EXCEPT ![d] = "insert"]
    /\ UNCHANGED <<others, input, phase, definitions_by_file, edge_counter,
                   tasks, result, collide>>

\* node_data.insert returns: its shard lock is given back.
P1NodeInserted(d) ==
    /\ at[d] = "insert"
    /\ held' = [held EXCEPT ![d] =
           {l \in @ : l[1] # "node_data"}]
    /\ at' = [at EXCEPT ![d] = "inserted"]
    /\ UNCHANGED <<others, vars, collide>>

\* Mutant of P1EntryDrop: the entry is kept after the statement, the task
\* goes on to its next occurrence with the shard still locked.
P1EntryDropLeaked(d) ==
    /\ \/ at[d] = "inserted"
       \/ at[d] = "entry" /\ NextOcc(d).symbol \in DOMAIN symbol_to_node
    /\ at' = [at EXCEPT ![d] = "idle"]
    /\ file_defs' = [file_defs EXCEPT ![d] =
           Append(@, DefinitionInfo(NextOcc(d).symbol,
                                    parse_scip_range(NextOcc(d).range)))]
    /\ pos' = [pos EXCEPT ![d] = @ + 1]
    /\ UNCHANGED <<others, input, phase, shared, pc, caller_symbol, result,
                   collide, held>>

\* The end of the statement `let node_id = *symbol_to_node.entry(..)
\* .or_insert_with(..);`: the id is copied out and the entry dropped, on an
\* occupied entry without the closure having run.  Then file_defs.push.
P1EntryDrop(d) ==
    /\ \/ at[d] = "inserted"
       \/ at[d] = "entry" /\ NextOcc(d).symbol \in DOMAIN symbol_to_node
    /\ held' = [held EXCEPT ![d] = {}]
    /\ at' = [at EXCEPT ![d] = "idle"]
    /\ file_defs' = [file_defs EXCEPT ![d] =
           Append(@, DefinitionInfo(NextOcc(d).symbol,
                                    parse_scip_range(NextOcc(d).range)))]
    /\ pos' = [pos EXCEPT ![d] = @ + 1]
    /\ UNCHANGED <<others, input, phase, shared, pc, caller_symbol, result,
                   collide>>

\* ----------------------------------------------------------------- Pass 2
\* The caller the loop over file_defs finds for the next occurrence.
NextCaller(d) ==
    ResolveCaller(file_defs[d], parse_scip_range(NextOcc(d).range))

\* The loop of a Pass-2 task moves to its next occurrence.
Advance(d) ==
    /\ pos' = [pos EXCEPT ![d] = @ + 1]
    /\ pc' = [pc EXCEPT ![d] =
           IF pos[d] + 1 = Len(index[d].occurrences) THEN "p2done" ELSE "p2"]

\* An occurrence that is no reference, or a reference that no definition
\* of the file contains: no map is touched.
P2Skip(d) ==
    /\ InP2Loop(d)
    /\ at[d] = "idle"
    /\ \/ ~IsReference(NextOcc(d))
       \/ NextCaller(d) = NoCaller
    /\ caller_symbol' = [caller_symbol EXCEPT ![d] = NoCaller]
    /\ Advance(d)
    /\ UNCHANGED <<others, input, phase, shared, file_defs, result, lock_vars>>

\* symbol_to_node.get(caller_symbol): the shard of the caller is locked for
\* reading and stays so while caller_idx lives.
P2Get(d) ==
    /\ InP2Loop(d)
    /\ at[d] = "idle"
    /\ IsReference(NextOcc(d))
    /\ NextCaller(d) # NoCaller
    /\ CanRead("symbol_to_node", SymbolShard(NextCaller(d)))
    /\ held' = [held EXCEPT ![d] =
           @ \cup {Lock("symbol_to_node", SymbolShard(NextCaller(d)), "read")}]
    /\ at' = [at EXCEPT ![d] = "get"]
    /\ caller_symbol' = [caller_symbol EXCEPT ![d] = NextCaller(d)]
    /\ UNCHANGED <<others, input, phase, shared, pc, pos, file_defs, result,
                   collide>>

\* node_data.get_mut(&*caller_idx), reached unless the reference names its
\* own caller: the shard of the caller's node is locked for writing, the
\* callee is pushed unless it is there already.
P2GetMut(d) ==
    /\ at[d] = "get"
    /\ caller_symbol[d] # NextOcc(d).symbol
    /\ CanWrite("node_data", NodeShard(symbol_to_node[caller_symbol[d]]))
    /\ LET nodes == AddEdge(node_data, symbol_to_node, caller_symbol[d],
                            NextOcc(d).symbol)
       IN  /\ node_data' = nodes
           /\ edge_counter' =
                  IF nodes # node_data THEN edge_counter + 1 ELSE edge_counter
    /\ held' = [held EXCEPT ![d] =
           @ \cup {Lock("node_data", NodeShard(symbol_to_node[caller_symbol[d]]),
                        "write")}]
    /\ at' = [at EXCEPT ![d] = "get_mut"]
    /\ UNCHANGED <<others, input, phase, definitions_by_file, symbol_to_node,
                   node_counter, tasks, result, collide>>

\* The inner `if let` ends: node is dropped.
P2NodeDrop(d) ==
    /\ at[d] = "get_mut"
    /\ held' = [held EXCEPT ![d] = {l \in @ : l[1] # "node_data"}]
    /\ at' = [at EXCEPT ![d] = "pushed"]
    /\ UNCHANGED <<others, vars, collide>>

\* The outer `if let` ends: caller_idx is dropped, then break.
P2GetDrop(d) ==
    /\ \/ at[d] = "pushed"
       \/ at[d] = "get" /\ caller_symbol[d] = NextOcc(d).symbol
    /\ held' = [held EXCEPT ![d] = {}]
    /\ at' = [at EXCEPT ![d] = "idle"]
    /\ Advance(d)
    /\ UNCHANGED <<others, input, phase, shared, file_defs, caller_symbol,
                   result, collide>>

NextLocks ==
    \/ OpenFile
    \/ MapFile
    \/ ParseIndex
    \/ \E d \in Docs : P1Skip(d)
    \/ \E d \in Docs : P1Entry(d)
    \/ \E d \in Docs : P1NodeInsert(d)
    \/ \E d \in Docs : P1NodeInserted(d)
    \/ \E d \in Docs : P1EntryDrop(d)
    \/ \E d \in Docs : P1Finish(d)
    \/ Pass1Join
    \/ \E d \in Docs : P2Begin(d)
    \/ \E d \in Docs : P2Skip(d)
    \/ \E d \in Docs : P2Get(d)
    \/ \E d \in Docs : P2GetMut(d)
    \/ \E d \in Docs : P2NodeDrop(d)
    \/ \E d \in Docs : P2GetDrop(d)
    \/ Finalize

lvars == <<vars, lock_vars>>

\* The worker threads keep running: while some task can take a step, a
\* step is taken.
SpecLocks == InitLocks /\ [][NextLocks]_lvars /\ WF_lvars(NextLocks)

\* ---------------------------------------------------------------
\* Properties of the locking

MapsHeld(d) == {l[1] : l \in held[d]}
Gained(d) == held'[d] \ held[d]

\* A symbol-map entry is taken by a task that holds nothing; a node-table
\* entry by a task that holds at most entries of the symbol map.
InLockOrder ==
    \A d \in Docs :
        \A l \in Gained(d) :
            /\ l[1] = "symbol_to_node" => held[d] = {}
            /\ l[1] = "node_data" => MapsHeld(d) \subseteq {"symbol_to_node"}

\* Between two occurrences, and so between two documents and at the end of
\* a task, nothing is held.
NothingHeldBetweenOccurrences ==
    \A d \in Docs :
        (at[d] = "idle" \/ pc[d] \in {"p1done", "p2done"}) => held[d] = {}

\* The call has not returned and no step can be taken.
Stuck == ~Done /\ ~ENABLED NextLocks

\* C36: for every finite index the call returns: the document tasks of both
\* passes never wait on each other in a cycle, since a task takes a
\* node-table entry only while it holds at most a symbol-map entry, never
\* the other way round, and holds no entry from one occurrence, and so from
\* one document, to the next.
C36_IngestTerminates ==
    /\ [][InLockOrder]_lvars
    /\ [](NothingHeldBetweenOccurrences /\ ~Stuck)
    /\ <>Done

\* One task holds an entry of each map while another waits for the
\* symbol-map shard of its next definition.
C36_Witness ==
    /\ Len(index) = 2
    /\ \E d \in Docs : MapsHeld(d) = LockedMaps
    /\ \E d \in Docs : at[d] = "idle" /\ pos[d] < Len(index[d].occurrences)
                       /\ IsDefinition(NextOcc(d))
                       /\ ~CanWrite("symbol_to_node", SymbolShard(NextOcc(d).symbol))
====
